---- MODULE Spec2Model ----
(***************************************************************************)
(* ZENEDGE governance and offload plane.                                   *)
(*                                                                         *)
(*   SpecIFR       episode records: ifr_build_v3 / ifr_verify_v3           *)
(*                 (kernel/trace/ifr.c)                                    *)
(*   SpecIPC       command and response rings, core and peer in parallel,  *)
(*                 one step per shared-memory access                       *)
(*                 (kernel/ipc/ipc.c, tools/bridge/bridge.c)               *)
(*   SpecContract  contract engine driven by charge / alloc / free calls   *)
(*   SpecContractSet  the same plus direct contract_set_state calls        *)
(*                 (kernel/contracts.c)                                    *)
(***************************************************************************)
EXTENDS Integers, Sequences, FiniteSets, TLC

VARIABLES
  \* ---- episode record (ifr.c) ----
  rec,          \* the ifr_record_v3_t under consideration
  ifr_fresh,    \* TRUE while rec is exactly what ifr_build_v3 left in *out
  ifr_ok,       \* result of the last ifr_verify_v3(rec): 0, 1, or -1 (none yet)
  ifr_builds,   \* number of ifr_build_v3 calls so far
  last_chain,   \* g_last_chain_hash: chain head of the last persisted record
  ifr_edits,    \* number of single-field changes made to rec since it was built
  \* ---- shared-memory rings (ipc.c, bridge.c) ----
  cmd_ring,     \* ipc_ring_t at IPC_CMD_RING_OFFSET
  rsp_ring,     \* ipc_rsp_ring_t at IPC_RSP_RING_OFFSET
  doorbell,     \* doorbell_ctl_t at IPC_DOORBELL_OFFSET
  core,         \* the core's thread: position and locals of ipc_send_flags /
                \* ipc_poll_response
  peer,         \* the bridge's thread: position and locals of poll_loop /
                \* process_packet / send_response
  core_now,     \* kernel time_usec()
  peer_now,     \* bridge time_usec() (CLOCK_MONOTONIC)
  sent,         \* packets published by ipc_send_flags, in order
  consumed,     \* packets the peer copied and released, in order
  published,    \* responses published by send_response, in order
  polled,       \* responses returned by ipc_poll_response, in order
  \* ---- contract engine (contracts.c, pmm.c) ----
  con,          \* the task_contract_t the calls are made on
  pmm_used,     \* frames marked allocated in the page allocator's bitmap
  con_held,     \* frames contract_alloc_page returned and that were not yet
                \* passed to contract_free_page
  con_last,     \* the last call: name, return value, whether it asked the
                \* page allocator for a frame, trace events it logged
  con_calls,    \* number of calls made so far
  \* ---- flight recorder (flightrec.c) ----
  flightrec,    \* buf: the event ring; head: the write counter; spans: the
                \* active-span table
  \* ---- job graph and executor (job_graph.c, sched_core.c) ----
  job_graph,    \* the job_graph_t (ctx->job)
  job_deps,     \* number of job_graph_add_dep calls so far
  sched,        \* sched_run_job: position, and what its last loop iteration
                \* did
  \* ---- shared heap (heap.c) ----
  heap,         \* heap_ctl (free_blocks, next_blob_id, bitmap) and blob_table
  heap_live,    \* blobs heap_alloc carved out that were not yet passed to
                \* heap_free: id, first block, number of blocks
  heap_last,    \* the last call: name, argument, return value, and the bitmap
                \* and free_blocks it found
  heap_calls    \* number of calls made so far

vars_ifr == <<rec, ifr_fresh, ifr_ok, ifr_builds, last_chain, ifr_edits>>

vars_ipc == <<cmd_ring, rsp_ring, doorbell, core, peer, core_now, peer_now,
              sent, consumed, published, polled>>

vars_con == <<con, pmm_used, con_held, con_last, con_calls>>

vars_fr == <<flightrec>>

vars_job == <<job_graph, job_deps, sched>>

vars_heap == <<heap, heap_live, heap_last, heap_calls>>

vars == <<vars_ifr, vars_ipc, vars_con, vars_fr, vars_job, vars_heap>>

\* what the operations of one subsystem, or of one thread, leave alone
IfrOnly == UNCHANGED <<vars_ipc, vars_con, vars_fr, vars_job, vars_heap>>
IpcOnly == UNCHANGED <<vars_ifr, vars_con, vars_fr, vars_job, vars_heap>>
ConOnly == UNCHANGED <<vars_ifr, vars_ipc, vars_job, vars_heap>>
JobOnly == UNCHANGED <<vars_ifr, vars_ipc, vars_con, vars_fr, vars_heap>>
SchedOnly == UNCHANGED <<vars_ifr, vars_ipc, vars_con, vars_heap>>
HeapOnly == UNCHANGED <<vars_ifr, vars_ipc, vars_con, vars_fr, vars_job>>
ExecOnly == UNCHANGED <<vars_ifr, vars_con, vars_heap, core, peer, peer_now,
                        consumed, published>>
IrqOnly == UNCHANGED <<vars_ifr, vars_con, vars_fr, vars_job, vars_heap,
                       cmd_ring, peer, core_now, peer_now, sent,
                       consumed, published>>
CoreStep == UNCHANGED <<peer, peer_now, consumed, published>> /\ IpcOnly
PeerStep == UNCHANGED <<core, core_now, sent, polled>> /\ IpcOnly

(***************************************************************************)
(* Bounds of the model.                                                    *)
(***************************************************************************)
MaxBuilds == 2      \* ifr_build_v3 calls in one behaviour
MaxEdits  == 1      \* single-field changes applied to one record
RingSize  == 3      \* slots per ring (IPC_RING_SIZE is 1024)
MaxCalls  == 6      \* contract calls in one behaviour
MaxFrames == 2      \* frames managed by the page allocator
TraceBufSize == 4   \* slots of the trace ring (TRACE_BUF_SIZE is 256)
MaxSteps  == 2      \* steps added to the job graph (MAX_JOB_STEPS is 32)
MaxDepCalls == 1    \* job_graph_add_dep calls in one behaviour
MaxAdmitCalls == 4  \* contract calls in one behaviour of the admission specification
HeapMaxBlocks == 4  \* blocks of the shared heap (HEAP_MAX_BLOCKS is 15296)
MaxBlobs  == 2      \* entries of blob_table (MAX_BLOBS is 256)
MaxHeapCalls == 5   \* heap calls in one behaviour
MaxPollMs == 2      \* sleeps of execute_step's poll loop (timeout_ms is 5000)
MaxIrqs   == 1      \* response interrupts taken in one behaviour

(***************************************************************************)
(* SHA-256, modelled as a collision-free function of its input bytes.      *)
(* A byte string is a sequence of symbols; the digest of the concatenation *)
(* of parts is the length-prefixed concatenation itself, so two inputs     *)
(* have the same digest iff they are the same byte string.                 *)
(***************************************************************************)
RECURSIVE Concat(_)
Concat(parts) ==
  IF parts = <<>> THEN <<>>
  ELSE <<Len(Head(parts))>> \o Head(parts) \o Concat(Tail(parts))

\* sha256_init / sha256_update* / sha256_final over the parts, in order
Sha256(parts) == <<Len(parts)>> \o Concat(parts)

\* memset(out, 0, 32): thirty-two zero bytes, which is no SHA-256 output here
ZeroDigest == <<>>

\* a scalar field (uint16/uint32/uint64/float) as its bytes
Bytes(v) == <<v>>

(***************************************************************************)
(* ifr.h constants                                                         *)
(***************************************************************************)
IFR_MAGIC       == 809914953     \* 0x30465249 "IFR0"
IFR_VERSION_V2  == 2
IFR_VERSION_V3  == 3
IFR_RECORD_SIZE == 136
IFR_V3_RECORD_SIZE == 324
IFR_FLAG_SIG_UNAVAILABLE           == 1
IFR_FLAG_MODEL_DIGEST_MISSING      == 2
IFR_FLAG_POLICY_DIGEST_PLACEHOLDER == 4

\* flags |= bit   (bit is a power of two)
FlagOr(flags, bit) ==
  IF (flags \div bit) % 2 = 1 THEN flags ELSE flags + bit

FlagSet(flags, bit) == (flags \div bit) % 2 = 1

\* the fields stored before ifr_hash, in struct order: the hashed region
HashedFields ==
  << "magic", "version", "flags", "record_size", "job_id", "episode_id",
     "model_id", "ts_usec", "goodput", "nonce", "model_digest",
     "policy_digest", "flightrec_seal_hash", "prev_chain_hash" >>

ScalarFields ==
  { "magic", "version", "flags", "record_size", "job_id", "episode_id",
    "model_id", "ts_usec", "goodput" }

FieldBytes(r, f) == IF f \in ScalarFields THEN Bytes(r[f]) ELSE r[f]

\* variant of IfrCoreHash: the hashed region starts at record_size, leaving
\* magic, version and flags outside it
IfrCoreHash_SkipsHeader(r) ==
  Sha256([i \in 1..(Len(HashedFields) - 3) |->
            FieldBytes(r, HashedFields[i + 3])])

\* sha256_hash((uint8_t *)rec, offsetof(ifr_record_v3_t, ifr_hash), out)
IfrCoreHash(r) ==
  Sha256([i \in 1..Len(HashedFields) |-> FieldBytes(r, HashedFields[i])])

\* SHA-256(prev_chain_hash || ifr_hash || seal || nonce || model || policy)
IfrChainHash(r) ==
  Sha256(<< r.prev_chain_hash, r.ifr_hash, r.flightrec_seal_hash,
            r.nonce, r.model_digest, r.policy_digest >>)

\* memset(out, 0, sizeof(*out))
ZeroRecord ==
  [ magic |-> 0, version |-> 0, flags |-> 0, record_size |-> 0,
    job_id |-> 0, episode_id |-> 0, model_id |-> 0, ts_usec |-> 0,
    goodput |-> 0,
    nonce |-> ZeroDigest, model_digest |-> ZeroDigest,
    policy_digest |-> ZeroDigest, flightrec_seal_hash |-> ZeroDigest,
    prev_chain_hash |-> ZeroDigest, ifr_hash |-> ZeroDigest,
    chain_hash |-> ZeroDigest, sig_classical |-> 0 ]

\* fill_nonce: SHA-256(time_usec() || time_cycles())
FillNonce(t, c) == Sha256(<<Bytes(t), Bytes(c)>>)

\* "no blob": heap_get_data returned NULL or heap_get_blob_size returned 0
NoBlob == <<>>

\* compute_model_digest: digest of the blob's data, or zeroes when absent
ModelDigest(data) == IF data = NoBlob THEN ZeroDigest ELSE Sha256(<<data>>)

ModelDigestFlags(flags, data) ==
  IF data = NoBlob THEN FlagOr(flags, IFR_FLAG_MODEL_DIGEST_MISSING) ELSE flags

\* the bytes of the string "zenedge-policy-v1" (17 characters)
PolicyBytes == <<122, 101, 110, 101, 100, 103, 101, 45, 112, 111, 108, 105,
                 99, 121, 45, 118, 49>>

\* compute_policy_digest
PolicyDigest == Sha256(<<PolicyBytes>>)

\* prev_chain_hash == NULL: the argument is absent
NullPtr == <<0>>

\* ifr_build_v3, the record it leaves in *out.
\*   prev   prev_chain_hash (NullPtr or 32 bytes)
\*   ts     time_usec() read for ts_usec;  nt, nc  the reads of fill_nonce
\*   data   the model blob's bytes (NoBlob if none);  seal  flightrec_seal_hash
IfrBuildV3(prev, job_id, episode_id, model_id, goodput, ts, nt, nc, data, seal) ==
  LET r0 == [ ZeroRecord EXCEPT
                !.magic = IFR_MAGIC,
                !.version = IFR_VERSION_V3,
                !.flags = 0,
                !.record_size = IFR_V3_RECORD_SIZE,
                !.job_id = job_id,
                !.episode_id = episode_id,
                !.model_id = model_id,
                !.ts_usec = ts,
                !.goodput = goodput ]
      r1 == [ r0 EXCEPT !.nonce = FillNonce(nt, nc) ]
      r2 == [ r1 EXCEPT !.model_digest = ModelDigest(data),
                        !.flags = ModelDigestFlags(r1.flags, data) ]
      r3 == [ r2 EXCEPT !.policy_digest = PolicyDigest,
                        !.flags = FlagOr(r2.flags,
                                         IFR_FLAG_POLICY_DIGEST_PLACEHOLDER) ]
      r4 == IF prev # NullPtr THEN [ r3 EXCEPT !.prev_chain_hash = prev ]
            ELSE r3
      r5 == [ r4 EXCEPT !.flightrec_seal_hash = seal ]
      r6 == [ r5 EXCEPT !.ifr_hash = IfrCoreHash(r5) ]
      r7 == [ r6 EXCEPT !.chain_hash = IfrChainHash(r6) ]
  IN  [ r7 EXCEPT !.sig_classical = 0,
                  !.flags = FlagOr(r7.flags, IFR_FLAG_SIG_UNAVAILABLE) ]

\* ifr_verify_v3 (rec non-NULL)
IfrVerifyV3(r) ==
  IF r.magic # IFR_MAGIC THEN 0
  ELSE IF r.version # IFR_VERSION_V3 THEN 0
  ELSE IF r.record_size # IFR_V3_RECORD_SIZE THEN 0
  ELSE IF IfrCoreHash(r) # r.ifr_hash THEN 0
  ELSE IF IfrChainHash(r) = r.chain_hash THEN 1 ELSE 0

(***************************************************************************)
(* Input domains of the episode-record operations.                         *)
(***************************************************************************)
JobIds     == {1}
EpisodeIds == 1..MaxBuilds
ModelIds   == {7}
Goodputs   == {5}
Times      == {10}
Cycles     == {3}
ModelBlobs == {NoBlob, <<"weights">>}
\* flightrec_seal_hash(out): the recorder's current seal, some 32 bytes
SealHashes == {ZeroDigest, Sha256(<<<<"seal">>>>)}

\* the values a field of a stored record may be changed to
FieldDomain(r, f) ==
  CASE f = "magic"       -> {IFR_MAGIC, 0}
    [] f = "version"     -> {IFR_VERSION_V3, IFR_VERSION_V2}
    [] f = "flags"       -> 0..7
    [] f = "record_size" -> {IFR_V3_RECORD_SIZE, IFR_RECORD_SIZE}
    [] f = "job_id"      -> JobIds \cup {0}
    [] f = "episode_id"  -> EpisodeIds
    [] f = "model_id"    -> ModelIds \cup {0}
    [] f = "ts_usec"     -> Times \cup {11}
    [] f = "goodput"     -> Goodputs \cup {0}
    [] f = "ifr_hash"    -> {ZeroDigest, IfrCoreHash(r)}
    [] f = "chain_hash"  -> {ZeroDigest, IfrChainHash(r)}
    [] OTHER             -> {ZeroDigest, PolicyDigest, FillNonce(10, 3)}

StoredFields == {HashedFields[i] : i \in 1..Len(HashedFields)}
                  \cup {"ifr_hash", "chain_hash"}

InitIFR ==
  /\ rec = ZeroRecord
  /\ ifr_fresh = FALSE
  /\ ifr_ok = -1
  /\ ifr_builds = 0
  /\ last_chain = ZeroDigest
  /\ ifr_edits = 0

\* kmain64.cpp: ifr_build_v3(&ifr, g_last_chain_hash, job_id, episode_id, ...)
IfrBuild ==
  /\ ifr_builds < MaxBuilds
  /\ \E prev \in {NullPtr, last_chain},
        job \in JobIds, ep \in {ifr_builds + 1}, model \in ModelIds,
        g \in Goodputs, ts \in Times, nc \in Cycles,
        data \in ModelBlobs, seal \in SealHashes :
       rec' = IfrBuildV3(prev, job, ep, model, g, ts, ts, nc, data, seal)
  /\ ifr_fresh' = TRUE
  /\ ifr_ok' = -1
  /\ ifr_builds' = ifr_builds + 1
  /\ ifr_edits' = 0
  /\ UNCHANGED last_chain
  /\ IfrOnly

\* kmain64.cpp: ifr_ok = (ifr_verify_v3(&ifr) != 0)
IfrVerify ==
  /\ ifr_builds > 0
  /\ ifr_ok' = IfrVerifyV3(rec)
  /\ UNCHANGED <<rec, ifr_fresh, ifr_builds, last_chain, ifr_edits>>
  /\ IfrOnly

\* kmain64.cpp: after a verified record was persisted and arbitrated,
\* g_last_chain_hash[i] = ifr.chain_hash[i]
IfrChainAdvance ==
  /\ ifr_ok = 1
  /\ last_chain # rec.chain_hash
  /\ last_chain' = rec.chain_hash
  /\ UNCHANGED <<rec, ifr_fresh, ifr_ok, ifr_builds, ifr_edits>>
  /\ IfrOnly

\* a stored record is altered in one field (the record crosses the shared
\* heap to the peer and back; ifr_verify_v3 takes any record)
IfrAlter ==
  /\ ifr_builds > 0
  /\ ifr_edits < MaxEdits
  /\ \E f \in StoredFields :
       \E v \in FieldDomain(rec, f) \ {rec[f]} :
         rec' = [rec EXCEPT ![f] = v]
  /\ ifr_fresh' = FALSE
  /\ ifr_ok' = -1
  /\ ifr_edits' = ifr_edits + 1
  /\ UNCHANGED <<ifr_builds, last_chain>>
  /\ IfrOnly

NextIFR == IfrBuild \/ IfrVerify \/ IfrAlter \/ IfrChainAdvance

(***************************************************************************)
(* Shared-memory substrate: ipc_proto.h                                    *)
(***************************************************************************)
IPC_MAGIC          == 1373555358   \* 0x51DECA9E
IPC_RSP_MAGIC      == 1381191728   \* 0x52535030 "RSP0"
IPC_DOORBELL_MAGIC == 1146048338   \* 0x444F4F52 "DOOR"
DOORBELL_FLAG_IRQ_ENABLED == 1
DOORBELL_FLAG_PENDING     == 2
CMD_PING      == 1
CMD_PRINT     == 2
CMD_RUN_MODEL == 16
RSP_OK        == 32768             \* 0x8000
RSP_ERROR     == 32769             \* 0x8001
PONG          == 1347374663        \* 0x504F4E47 "PONG"
MOCK_RESULT   == 305419896         \* 0x12345678

\* flags &= ~bit
FlagClear(flags, bit) == IF FlagSet(flags, bit) THEN flags - bit ELSE flags

\* ipc_packet_t / ipc_response_t in zeroed shared memory
ZeroPacket   == [cmd |-> 0, flags |-> 0, payload_id |-> 0, timestamp |-> 0]
ZeroResponse == [status |-> 0, orig_cmd |-> 0, result |-> 0, timestamp |-> 0]

Slots == 0..(RingSize - 1)

\* sends attempted in one behaviour: enough to fill the ring, drain one slot
\* and fill it again
MaxSends == RingSize + 1

\* arguments of ipc_send / ipc_send_flags
Cmds     == {CMD_PING, CMD_RUN_MODEL}
Payloads == {9}
PktFlags == {0}

\* variant of RingNext: the index is not wrapped
RingNext_NoWrap(i, size) == i + 1

\* (head + 1) % ring->size   and   (tail + 1) % ring->size
RingNext(i, size) == (i + 1) % size

\* variant of RingFull: the ring is never reported full
RingFull_Never(next_head, tail) == FALSE

\* variant of RingFull: full is reported one slot early
RingFull_Early(next_head, tail) ==
  next_head = tail \/ RingNext(next_head, RingSize) = tail

\* if (next_head == ring->tail)  -- ring full
RingFull(next_head, tail) == next_head = tail

\* variant of RingEmpty: the consumer never finds the ring empty
RingEmpty_Never(head, tail) == FALSE

\* if (head == tail)  -- ring empty
RingEmpty(head, tail) == head = tail

\* process_packet: status and result for a command
ProcessStatus(pkt) ==
  IF pkt.cmd \in {CMD_PING, CMD_PRINT, CMD_RUN_MODEL} THEN RSP_OK ELSE RSP_ERROR

\* variant of ProcessResult: CMD_PING answered with the mock inference result
ProcessResult_NoPong(pkt) ==
  CASE pkt.cmd = CMD_PRINT     -> pkt.payload_id
    [] pkt.cmd = CMD_PING      -> MOCK_RESULT
    [] pkt.cmd = CMD_RUN_MODEL -> MOCK_RESULT
    [] OTHER                   -> pkt.cmd

ProcessResult(pkt) ==
  CASE pkt.cmd = CMD_PING      -> PONG
    [] pkt.cmd = CMD_PRINT     -> pkt.payload_id
    [] pkt.cmd = CMD_RUN_MODEL -> MOCK_RESULT
    [] OTHER                   -> pkt.cmd

\* the state ipc_init leaves (rings and doorbell in zeroed shared memory)
InitIPC ==
  /\ cmd_ring = [magic |-> IPC_MAGIC, head |-> 0, tail |-> 0, size |-> RingSize,
                 data |-> [i \in Slots |-> ZeroPacket]]
  /\ rsp_ring = [magic |-> IPC_RSP_MAGIC, head |-> 0, tail |-> 0,
                 size |-> RingSize, data |-> [i \in Slots |-> ZeroResponse]]
  /\ doorbell = [magic |-> IPC_DOORBELL_MAGIC, version |-> 1,
                 cmd_doorbell |-> 0, cmd_flags |-> 0, cmd_irq_count |-> 0,
                 rsp_doorbell |-> 0, rsp_flags |-> DOORBELL_FLAG_IRQ_ENABLED,
                 rsp_irq_count |-> 0, cmd_writes |-> 0, rsp_writes |-> 0]
  /\ core = [pc |-> "idle", ret |-> 0, head |-> 0, next_head |-> 0, tail |-> 0,
             pkt |-> ZeroPacket, rsp |-> ZeroResponse, irq_count |-> 0,
             enable |-> 1, tmp |-> 0]
  /\ peer = [pc |-> "top", last_doorbell |-> 0, db_val |-> 0, tmp |-> 0,
             head |-> 0, tail |-> 0, next_head |-> 0,
             local_pkt |-> ZeroPacket, rsp |-> ZeroResponse]
  /\ core_now = 1
  /\ peer_now = 1
  /\ sent = <<>>
  /\ consumed = <<>>
  /\ published = <<>>
  /\ polled = <<>>



(***************************************************************************)
(* ipc_send_flags(cmd, payload, flags), one step per shared-memory access. *)
(* cmd_ring->head is written by the core alone, so its read and the        *)
(* computation of next_head are part of the call step.                     *)
(***************************************************************************)
CoreSendCall ==
  /\ core.pc = "idle"
  /\ Len(sent) < MaxSends
  /\ \E cmd \in Cmds, payload \in Payloads, flags \in PktFlags :
       core' = [core EXCEPT
                  !.pc = "s_full", !.ret = 0,
                  !.head = cmd_ring.head,
                  !.next_head = RingNext(cmd_ring.head, cmd_ring.size),
                  !.pkt = [cmd |-> cmd, flags |-> flags,
                           payload_id |-> payload, timestamp |-> 0]]
  /\ UNCHANGED <<cmd_ring, rsp_ring, doorbell, core_now, sent, polled>>
  /\ CoreStep

\* variant of CoreSendCheckFull: the doorbell is rung before the ring is
\* found full
CoreSendCheckFull_RingsBell ==
  /\ core.pc = "s_full"
  /\ core' = IF RingFull(core.next_head, cmd_ring.tail)
             THEN [core EXCEPT !.pc = "idle", !.ret = -1]
             ELSE [core EXCEPT !.pc = "s_cmd"]
  /\ doorbell' = IF RingFull(core.next_head, cmd_ring.tail)
                 THEN [doorbell EXCEPT !.cmd_doorbell = core.next_head,
                                       !.cmd_writes = doorbell.cmd_writes + 1]
                 ELSE doorbell
  /\ UNCHANGED <<cmd_ring, rsp_ring, core_now, sent, polled>>
  /\ CoreStep

\* if (next_head == cmd_ring->tail) return -1;
CoreSendCheckFull ==
  /\ core.pc = "s_full"
  /\ core' = IF RingFull(core.next_head, cmd_ring.tail)
             THEN [core EXCEPT !.pc = "idle", !.ret = -1]
             ELSE [core EXCEPT !.pc = "s_cmd"]
  /\ UNCHANGED <<cmd_ring, rsp_ring, doorbell, core_now, sent, polled>>
  /\ CoreStep

\* pkt->cmd = cmd;
CoreSendWriteCmd ==
  /\ core.pc = "s_cmd"
  /\ cmd_ring' = [cmd_ring EXCEPT !.data[core.head].cmd = core.pkt.cmd]
  /\ core' = [core EXCEPT !.pc = "s_flags"]
  /\ UNCHANGED <<rsp_ring, doorbell, core_now, sent, polled>>
  /\ CoreStep

\* pkt->flags = flags;
CoreSendWriteFlags ==
  /\ core.pc = "s_flags"
  /\ cmd_ring' = [cmd_ring EXCEPT !.data[core.head].flags = core.pkt.flags]
  /\ core' = [core EXCEPT !.pc = "s_payload"]
  /\ UNCHANGED <<rsp_ring, doorbell, core_now, sent, polled>>
  /\ CoreStep

\* pkt->payload_id = payload;
CoreSendWritePayload ==
  /\ core.pc = "s_payload"
  /\ cmd_ring' = [cmd_ring EXCEPT
                    !.data[core.head].payload_id = core.pkt.payload_id]
  /\ core' = [core EXCEPT !.pc = "s_ts"]
  /\ UNCHANGED <<rsp_ring, doorbell, core_now, sent, polled>>
  /\ CoreStep

\* pkt->timestamp = time_usec();
CoreSendWriteTimestamp ==
  /\ core.pc = "s_ts"
  /\ cmd_ring' = [cmd_ring EXCEPT !.data[core.head].timestamp = core_now]
  /\ core' = [core EXCEPT !.pc = "s_publish", !.pkt.timestamp = core_now]
  /\ core_now' = core_now + 1
  /\ UNCHANGED <<rsp_ring, doorbell, sent, polled>>
  /\ CoreStep

\* cmd_ring->head = next_head;
CoreSendPublish ==
  /\ core.pc = "s_publish"
  /\ cmd_ring' = [cmd_ring EXCEPT !.head = core.next_head]
  /\ sent' = Append(sent, core.pkt)
  /\ core' = [core EXCEPT !.pc = "s_bell"]
  /\ UNCHANGED <<rsp_ring, doorbell, core_now, polled>>
  /\ CoreStep

\* ring_cmd_doorbell: doorbell->cmd_doorbell = head; doorbell->cmd_writes++;
\* (cmd_writes is accessed by the core alone)
CoreDoorbellWrite ==
  /\ core.pc = "s_bell"
  /\ doorbell' = [doorbell EXCEPT !.cmd_doorbell = core.next_head,
                                  !.cmd_writes = doorbell.cmd_writes + 1]
  /\ core' = [core EXCEPT !.pc = "s_pending"]
  /\ UNCHANGED <<cmd_ring, rsp_ring, core_now, sent, polled>>
  /\ CoreStep

\* a variant that marks the doorbell pending whatever cmd_flags holds
CoreDoorbellPending_Always ==
  /\ core.pc = "s_pending"
  /\ doorbell' = [doorbell EXCEPT
                    !.cmd_flags = FlagOr(doorbell.cmd_flags, DOORBELL_FLAG_PENDING),
                    !.cmd_irq_count = doorbell.cmd_irq_count + 1]
  /\ core' = [core EXCEPT !.pc = "idle", !.ret = 0]
  /\ UNCHANGED <<cmd_ring, rsp_ring, core_now, sent, polled>>
  /\ CoreStep

\* if (cmd_flags & IRQ_ENABLED) { cmd_flags |= PENDING; cmd_irq_count++; }
\* return 0;
CoreDoorbellPending ==
  /\ core.pc = "s_pending"
  /\ doorbell' =
       IF FlagSet(doorbell.cmd_flags, DOORBELL_FLAG_IRQ_ENABLED)
       THEN [doorbell EXCEPT
               !.cmd_flags = FlagOr(doorbell.cmd_flags, DOORBELL_FLAG_PENDING),
               !.cmd_irq_count = doorbell.cmd_irq_count + 1]
       ELSE doorbell
  /\ core' = [core EXCEPT !.pc = "idle", !.ret = 0]
  /\ UNCHANGED <<cmd_ring, rsp_ring, core_now, sent, polled>>
  /\ CoreStep

(***************************************************************************)
(* ipc_poll_response(&rsp).  rsp_ring->tail is written by the core alone.  *)
(* The console log re-reads the slot before tail is stored and changes     *)
(* nothing.                                                                *)
(***************************************************************************)
CorePollCall ==
  /\ core.pc = "idle"
  /\ core' = IF rsp_ring.magic # IPC_RSP_MAGIC
                \/ RingEmpty(rsp_ring.head, rsp_ring.tail)
             THEN [core EXCEPT !.ret = 0]
             ELSE [core EXCEPT !.pc = "p_status", !.tail = rsp_ring.tail]
  /\ UNCHANGED <<cmd_ring, rsp_ring, doorbell, core_now, sent, polled>>
  /\ CoreStep

\* rsp->status = resp->status;
CorePollReadStatus ==
  /\ core.pc = "p_status"
  /\ core' = [core EXCEPT !.pc = "p_cmd",
                !.rsp.status = rsp_ring.data[core.tail].status]
  /\ UNCHANGED <<cmd_ring, rsp_ring, doorbell, core_now, sent, polled>>
  /\ CoreStep

\* rsp->orig_cmd = resp->orig_cmd;
CorePollReadOrigCmd ==
  /\ core.pc = "p_cmd"
  /\ core' = [core EXCEPT !.pc = "p_result",
                !.rsp.orig_cmd = rsp_ring.data[core.tail].orig_cmd]
  /\ UNCHANGED <<cmd_ring, rsp_ring, doorbell, core_now, sent, polled>>
  /\ CoreStep

\* rsp->result = resp->result;
CorePollReadResult ==
  /\ core.pc = "p_result"
  /\ core' = [core EXCEPT !.pc = "p_ts",
                !.rsp.result = rsp_ring.data[core.tail].result]
  /\ UNCHANGED <<cmd_ring, rsp_ring, doorbell, core_now, sent, polled>>
  /\ CoreStep

\* rsp->timestamp = resp->timestamp;
CorePollReadTimestamp ==
  /\ core.pc = "p_ts"
  /\ core' = [core EXCEPT !.pc = "p_tail",
                !.rsp.timestamp = rsp_ring.data[core.tail].timestamp]
  /\ UNCHANGED <<cmd_ring, rsp_ring, doorbell, core_now, sent, polled>>
  /\ CoreStep

\* rsp_ring->tail = (tail + 1) % rsp_ring->size; return 1;
CorePollAdvance ==
  /\ core.pc = "p_tail"
  /\ rsp_ring' = [rsp_ring EXCEPT !.tail = RingNext(core.tail, rsp_ring.size)]
  /\ polled' = Append(polled, core.rsp)
  /\ core' = [core EXCEPT !.pc = "idle", !.ret = 1]
  /\ UNCHANGED <<cmd_ring, doorbell, core_now, sent>>
  /\ CoreStep

(***************************************************************************)
(* bridge.c poll_loop, one step per shared-memory access.                  *)
(* cmd_ring->tail and rsp_ring->head are written by the peer alone.        *)
(***************************************************************************)
\* if (cmd_ring->magic != IPC_MAGIC) continue;
\* db_val = doorbell->cmd_doorbell; if (db_val != last_doorbell) ...
PeerReadDoorbell ==
  /\ peer.pc = "top"
  /\ cmd_ring.magic = IPC_MAGIC
  /\ peer' = IF doorbell.magic = IPC_DOORBELL_MAGIC
                /\ doorbell.cmd_doorbell # peer.last_doorbell
             THEN [peer EXCEPT !.pc = "db_load",
                               !.db_val = doorbell.cmd_doorbell]
             ELSE [peer EXCEPT !.pc = "rd_head"]
  /\ UNCHANGED <<cmd_ring, rsp_ring, doorbell, peer_now, consumed, published>>
  /\ PeerStep

\* doorbell->cmd_flags &= ~DOORBELL_FLAG_PENDING;   (the load)
PeerLoadCmdFlags ==
  /\ peer.pc = "db_load"
  /\ peer' = [peer EXCEPT !.pc = "db_store", !.tmp = doorbell.cmd_flags]
  /\ UNCHANGED <<cmd_ring, rsp_ring, doorbell, peer_now, consumed, published>>
  /\ PeerStep

\* doorbell->cmd_flags &= ~DOORBELL_FLAG_PENDING;   (the store)
\* last_doorbell = db_val;
PeerStoreCmdFlags ==
  /\ peer.pc = "db_store"
  /\ doorbell' = [doorbell EXCEPT
                    !.cmd_flags = FlagClear(peer.tmp, DOORBELL_FLAG_PENDING)]
  /\ peer' = [peer EXCEPT !.pc = "rd_head", !.last_doorbell = peer.db_val]
  /\ UNCHANGED <<cmd_ring, rsp_ring, peer_now, consumed, published>>
  /\ PeerStep

\* head = cmd_ring->head; tail = cmd_ring->tail; if (head == tail) continue;
PeerReadHead ==
  /\ peer.pc = "rd_head"
  /\ peer' = IF RingEmpty(cmd_ring.head, cmd_ring.tail)
             THEN [peer EXCEPT !.pc = "top", !.head = cmd_ring.head,
                               !.tail = cmd_ring.tail]
             ELSE [peer EXCEPT !.pc = "c_cmd", !.head = cmd_ring.head,
                               !.tail = cmd_ring.tail]
  /\ UNCHANGED <<cmd_ring, rsp_ring, doorbell, peer_now, consumed, published>>
  /\ PeerStep

\* local_pkt.cmd = pkt->cmd;          (pkt = &cmd_ring->data[tail])
PeerCopyCmd ==
  /\ peer.pc = "c_cmd"
  /\ peer' = [peer EXCEPT !.pc = "c_flags",
                !.local_pkt.cmd = cmd_ring.data[peer.tail].cmd]
  /\ UNCHANGED <<cmd_ring, rsp_ring, doorbell, peer_now, consumed, published>>
  /\ PeerStep

\* local_pkt.flags = pkt->flags;
PeerCopyFlags ==
  /\ peer.pc = "c_flags"
  /\ peer' = [peer EXCEPT !.pc = "c_payload",
                !.local_pkt.flags = cmd_ring.data[peer.tail].flags]
  /\ UNCHANGED <<cmd_ring, rsp_ring, doorbell, peer_now, consumed, published>>
  /\ PeerStep

\* local_pkt.payload_id = pkt->payload_id;
PeerCopyPayload ==
  /\ peer.pc = "c_payload"
  /\ peer' = [peer EXCEPT !.pc = "c_ts",
                !.local_pkt.payload_id = cmd_ring.data[peer.tail].payload_id]
  /\ UNCHANGED <<cmd_ring, rsp_ring, doorbell, peer_now, consumed, published>>
  /\ PeerStep

\* local_pkt.timestamp = pkt->timestamp;
PeerCopyTimestamp ==
  /\ peer.pc = "c_ts"
  /\ peer' = [peer EXCEPT !.pc = "r_full",
                !.local_pkt.timestamp = cmd_ring.data[peer.tail].timestamp]
  /\ UNCHANGED <<cmd_ring, rsp_ring, doorbell, peer_now, consumed, published>>
  /\ PeerStep

\* process_packet(&local_pkt) -> send_response(status, pkt->cmd, result):
\* magic check, head = rsp_ring->head, next_head, if (next_head == tail)
\* return -1  (the response is dropped)
PeerRspCheckFull ==
  /\ peer.pc = "r_full"
  /\ LET next == RingNext(rsp_ring.head, rsp_ring.size) IN
     peer' = IF rsp_ring.magic # IPC_RSP_MAGIC
                \/ RingFull(next, rsp_ring.tail)
             THEN [peer EXCEPT !.pc = "c_tail"]
             ELSE [peer EXCEPT
                     !.pc = "r_status", !.head = rsp_ring.head,
                     !.next_head = next,
                     !.rsp = [status |-> ProcessStatus(peer.local_pkt),
                              orig_cmd |-> peer.local_pkt.cmd,
                              result |-> ProcessResult(peer.local_pkt),
                              timestamp |-> 0]]
  /\ UNCHANGED <<cmd_ring, rsp_ring, doorbell, peer_now, consumed, published>>
  /\ PeerStep

\* rsp->status = status;              (rsp = &rsp_ring->data[head])
PeerRspWriteStatus ==
  /\ peer.pc = "r_status"
  /\ rsp_ring' = [rsp_ring EXCEPT !.data[peer.head].status = peer.rsp.status]
  /\ peer' = [peer EXCEPT !.pc = "r_cmd"]
  /\ UNCHANGED <<cmd_ring, doorbell, peer_now, consumed, published>>
  /\ PeerStep

\* rsp->orig_cmd = orig_cmd;
PeerRspWriteOrigCmd ==
  /\ peer.pc = "r_cmd"
  /\ rsp_ring' = [rsp_ring EXCEPT
                    !.data[peer.head].orig_cmd = peer.rsp.orig_cmd]
  /\ peer' = [peer EXCEPT !.pc = "r_result"]
  /\ UNCHANGED <<cmd_ring, doorbell, peer_now, consumed, published>>
  /\ PeerStep

\* rsp->result = result;
PeerRspWriteResult ==
  /\ peer.pc = "r_result"
  /\ rsp_ring' = [rsp_ring EXCEPT !.data[peer.head].result = peer.rsp.result]
  /\ peer' = [peer EXCEPT !.pc = "r_ts"]
  /\ UNCHANGED <<cmd_ring, doorbell, peer_now, consumed, published>>
  /\ PeerStep

\* rsp->timestamp = time_usec();
PeerRspWriteTimestamp ==
  /\ peer.pc = "r_ts"
  /\ rsp_ring' = [rsp_ring EXCEPT !.data[peer.head].timestamp = peer_now]
  /\ peer' = [peer EXCEPT !.pc = "r_publish", !.rsp.timestamp = peer_now]
  /\ peer_now' = peer_now + 1
  /\ UNCHANGED <<cmd_ring, doorbell, consumed, published>>
  /\ PeerStep

\* rsp_ring->head = next_head;
PeerRspPublish ==
  /\ peer.pc = "r_publish"
  /\ rsp_ring' = [rsp_ring EXCEPT !.head = peer.next_head]
  /\ published' = Append(published, peer.rsp)
  /\ peer' = [peer EXCEPT !.pc = "r_bell"]
  /\ UNCHANGED <<cmd_ring, doorbell, peer_now, consumed>>
  /\ PeerStep

\* ring_rsp_doorbell: doorbell->rsp_doorbell = head; doorbell->rsp_writes++;
\* (rsp_writes is accessed by the peer alone)
PeerRspDoorbellWrite ==
  /\ peer.pc = "r_bell"
  /\ IF doorbell.magic # IPC_DOORBELL_MAGIC
     THEN /\ peer' = [peer EXCEPT !.pc = "c_tail"]
          /\ UNCHANGED doorbell
     ELSE /\ doorbell' = [doorbell EXCEPT
                            !.rsp_doorbell = peer.next_head,
                            !.rsp_writes = doorbell.rsp_writes + 1]
          /\ peer' = [peer EXCEPT !.pc = "r_test"]
  /\ UNCHANGED <<cmd_ring, rsp_ring, peer_now, consumed, published>>
  /\ PeerStep

\* if (doorbell->rsp_flags & DOORBELL_FLAG_IRQ_ENABLED)
PeerRspFlagsTest ==
  /\ peer.pc = "r_test"
  /\ peer' = IF FlagSet(doorbell.rsp_flags, DOORBELL_FLAG_IRQ_ENABLED)
             THEN [peer EXCEPT !.pc = "r_load"]
             ELSE [peer EXCEPT !.pc = "c_tail"]
  /\ UNCHANGED <<cmd_ring, rsp_ring, doorbell, peer_now, consumed, published>>
  /\ PeerStep

\* doorbell->rsp_flags |= DOORBELL_FLAG_PENDING;    (the load)
PeerRspFlagsLoad ==
  /\ peer.pc = "r_load"
  /\ peer' = [peer EXCEPT !.pc = "r_store", !.tmp = doorbell.rsp_flags]
  /\ UNCHANGED <<cmd_ring, rsp_ring, doorbell, peer_now, consumed, published>>
  /\ PeerStep

\* doorbell->rsp_flags |= DOORBELL_FLAG_PENDING;    (the store)
\* doorbell->rsp_irq_count++;   (accessed by the peer alone)
PeerRspFlagsStore ==
  /\ peer.pc = "r_store"
  /\ doorbell' = [doorbell EXCEPT
                    !.rsp_flags = FlagOr(peer.tmp, DOORBELL_FLAG_PENDING),
                    !.rsp_irq_count = doorbell.rsp_irq_count + 1]
  /\ peer' = [peer EXCEPT !.pc = "c_tail"]
  /\ UNCHANGED <<cmd_ring, rsp_ring, peer_now, consumed, published>>
  /\ PeerStep

\* cmd_ring->tail = (tail + 1) % cmd_ring->size;
PeerAdvanceTail ==
  /\ peer.pc = "c_tail"
  /\ cmd_ring' = [cmd_ring EXCEPT !.tail = RingNext(peer.tail, cmd_ring.size)]
  /\ consumed' = Append(consumed, peer.local_pkt)
  /\ peer' = [peer EXCEPT !.pc = "top"]
  /\ UNCHANGED <<rsp_ring, doorbell, peer_now, published>>
  /\ PeerStep

CoreNext ==
  \/ CoreSendCall \/ CoreSendCheckFull \/ CoreSendWriteCmd
  \/ CoreSendWriteFlags \/ CoreSendWritePayload \/ CoreSendWriteTimestamp
  \/ CoreSendPublish \/ CoreDoorbellWrite \/ CoreDoorbellPending
  \/ CorePollCall \/ CorePollReadStatus \/ CorePollReadOrigCmd
  \/ CorePollReadResult \/ CorePollReadTimestamp \/ CorePollAdvance

PeerNext ==
  \/ PeerReadDoorbell \/ PeerLoadCmdFlags \/ PeerStoreCmdFlags
  \/ PeerReadHead \/ PeerCopyCmd \/ PeerCopyFlags \/ PeerCopyPayload
  \/ PeerCopyTimestamp \/ PeerRspCheckFull \/ PeerRspWriteStatus
  \/ PeerRspWriteOrigCmd \/ PeerRspWriteResult \/ PeerRspWriteTimestamp
  \/ PeerRspPublish \/ PeerRspDoorbellWrite \/ PeerRspFlagsTest
  \/ PeerRspFlagsLoad \/ PeerRspFlagsStore \/ PeerAdvanceTail

NextIPC == CoreNext \/ PeerNext

(***************************************************************************)
(* ipc_init(base_addr, irq), one step per store to the shared memory, in   *)
(* the order of the source.  The memory is a fresh mapping, all zero.      *)
(***************************************************************************)
IpcInitOrder ==
  <<[pc |-> "i_cmd_head",  st |-> "cmd",  field |-> "head",  val |-> 0],
    [pc |-> "i_cmd_tail",  st |-> "cmd",  field |-> "tail",  val |-> 0],
    [pc |-> "i_cmd_size",  st |-> "cmd",  field |-> "size",  val |-> RingSize],
    [pc |-> "i_cmd_magic", st |-> "cmd",  field |-> "magic", val |-> IPC_MAGIC],
    [pc |-> "i_rsp_magic", st |-> "rsp",  field |-> "magic",
       val |-> IPC_RSP_MAGIC],
    [pc |-> "i_rsp_head",  st |-> "rsp",  field |-> "head",  val |-> 0],
    [pc |-> "i_rsp_tail",  st |-> "rsp",  field |-> "tail",  val |-> 0],
    [pc |-> "i_rsp_size",  st |-> "rsp",  field |-> "size",  val |-> RingSize],
    [pc |-> "i_db_magic",  st |-> "bell", field |-> "magic",
       val |-> IPC_DOORBELL_MAGIC],
    [pc |-> "i_db_version", st |-> "bell", field |-> "version", val |-> 1],
    [pc |-> "i_db_cmd_doorbell", st |-> "bell", field |-> "cmd_doorbell",
       val |-> 0],
    [pc |-> "i_db_cmd_flags", st |-> "bell", field |-> "cmd_flags", val |-> 0],
    [pc |-> "i_db_cmd_irq_count", st |-> "bell", field |-> "cmd_irq_count",
       val |-> 0],
    [pc |-> "i_db_rsp_doorbell", st |-> "bell", field |-> "rsp_doorbell",
       val |-> 0],
    [pc |-> "i_db_rsp_flags", st |-> "bell", field |-> "rsp_flags",
       val |-> DOORBELL_FLAG_IRQ_ENABLED],
    [pc |-> "i_db_rsp_irq_count", st |-> "bell", field |-> "rsp_irq_count",
       val |-> 0],
    [pc |-> "i_db_cmd_writes", st |-> "bell", field |-> "cmd_writes",
       val |-> 0],
    [pc |-> "i_db_rsp_writes", st |-> "bell", field |-> "rsp_writes",
       val |-> 0]>>

\* the shared memory and the two sides before ipc_init has stored anything
InitIPCBoot ==
  /\ cmd_ring = [magic |-> 0, head |-> 0, tail |-> 0, size |-> 0,
                 data |-> [i \in Slots |-> ZeroPacket]]
  /\ rsp_ring = [magic |-> 0, head |-> 0, tail |-> 0, size |-> 0,
                 data |-> [i \in Slots |-> ZeroResponse]]
  /\ doorbell = [magic |-> 0, version |-> 0,
                 cmd_doorbell |-> 0, cmd_flags |-> 0, cmd_irq_count |-> 0,
                 rsp_doorbell |-> 0, rsp_flags |-> 0,
                 rsp_irq_count |-> 0, cmd_writes |-> 0, rsp_writes |-> 0]
  /\ core = [pc |-> IpcInitOrder[1].pc, ret |-> 0, head |-> 0,
             next_head |-> 0, tail |-> 0,
             pkt |-> ZeroPacket, rsp |-> ZeroResponse, irq_count |-> 0,
             enable |-> 1, tmp |-> 0]
  /\ peer = [pc |-> "top", last_doorbell |-> 0, db_val |-> 0, tmp |-> 0,
             head |-> 0, tail |-> 0, next_head |-> 0,
             local_pkt |-> ZeroPacket, rsp |-> ZeroResponse]
  /\ core_now = 1
  /\ peer_now = 1
  /\ sent = <<>>
  /\ consumed = <<>>
  /\ published = <<>>
  /\ polled = <<>>

\* the next store of ipc_init; after the last one the kernel may send
IpcInitWrite ==
  /\ \E k \in 1..Len(IpcInitOrder) :
       LET w == IpcInitOrder[k]
       IN  /\ core.pc = w.pc
           /\ cmd_ring' = IF w.st = "cmd"
                          THEN [cmd_ring EXCEPT ![w.field] = w.val]
                          ELSE cmd_ring
           /\ rsp_ring' = IF w.st = "rsp"
                          THEN [rsp_ring EXCEPT ![w.field] = w.val]
                          ELSE rsp_ring
           /\ doorbell' = IF w.st = "bell"
                          THEN [doorbell EXCEPT ![w.field] = w.val]
                          ELSE doorbell
           /\ core' = [core EXCEPT !.pc = IF k = Len(IpcInitOrder)
                                          THEN "idle"
                                          ELSE IpcInitOrder[k + 1].pc]
  /\ UNCHANGED <<core_now, sent, polled>>
  /\ CoreStep

NextIPCBoot == IpcInitWrite \/ NextIPC

(***************************************************************************)
(* ipc_enable_irq(enable).  rsp_flags |= / &= ~ DOORBELL_FLAG_IRQ_ENABLED  *)
(* on the volatile field is a load and a store, and the peer, on another   *)
(* CPU, may access the field between the two.  core.enable is the argument *)
(* of the call in progress or, at "idle", of the last call (ipc_init       *)
(* having enabled the interrupts).                                         *)
(***************************************************************************)
CoreEnableIrqLoad ==
  /\ core.pc = "idle"
  /\ \E enable \in {0, 1} :
       core' = [core EXCEPT !.pc = "e_store", !.enable = enable,
                            !.tmp = doorbell.rsp_flags]
  /\ UNCHANGED <<cmd_ring, rsp_ring, doorbell, core_now, sent, polled>>
  /\ CoreStep

CoreEnableIrqStore ==
  /\ core.pc = "e_store"
  /\ doorbell' = [doorbell EXCEPT !.rsp_flags =
                    IF core.enable = 1
                    THEN FlagOr(core.tmp, DOORBELL_FLAG_IRQ_ENABLED)
                    ELSE FlagClear(core.tmp, DOORBELL_FLAG_IRQ_ENABLED)]
  /\ core' = [core EXCEPT !.pc = "idle"]
  /\ UNCHANGED <<cmd_ring, rsp_ring, core_now, sent, polled>>
  /\ CoreStep

\* the reader of the command doorbell asks for interrupts, or stops asking:
\* DOORBELL_FLAG_IRQ_ENABLED of cmd_flags is its bit (ipc_proto.h), set by
\* no code of the kernel
PeerCmdIrqEnable ==
  /\ peer.pc = "top"
  /\ \E want \in BOOLEAN :
       doorbell' = [doorbell EXCEPT !.cmd_flags =
                      IF want THEN FlagOr(@, DOORBELL_FLAG_IRQ_ENABLED)
                      ELSE FlagClear(@, DOORBELL_FLAG_IRQ_ENABLED)]
  /\ doorbell' # doorbell
  /\ UNCHANGED <<cmd_ring, rsp_ring, peer, peer_now, consumed, published>>
  /\ PeerStep

CoreSendNext ==
  \/ CoreSendCall \/ CoreSendCheckFull \/ CoreSendWriteCmd
  \/ CoreSendWriteFlags \/ CoreSendWritePayload \/ CoreSendWriteTimestamp
  \/ CoreSendPublish \/ CoreDoorbellWrite \/ CoreDoorbellPending

NextIPCCmdIrq == CoreSendNext \/ PeerNext \/ PeerCmdIrqEnable

\* ipc_has_response
ipc_has_response(ring) ==
  IF ring.magic # IPC_RSP_MAGIC THEN 0
  ELSE IF ring.head # ring.tail THEN 1 ELSE 0

\* The rings lie in the ivshmem region, which the host side maps writable:
\* a write from there replaces a ring's magic word.
ShmClobberCmdMagic ==
  /\ cmd_ring.magic = IPC_MAGIC
  /\ cmd_ring' = [cmd_ring EXCEPT !.magic = 0]
  /\ UNCHANGED <<rsp_ring, doorbell, core, peer, core_now, peer_now, sent,
                 consumed, published, polled>>
  /\ IpcOnly

ShmClobberRspMagic ==
  /\ rsp_ring.magic = IPC_RSP_MAGIC
  /\ rsp_ring' = [rsp_ring EXCEPT !.magic = 0]
  /\ UNCHANGED <<cmd_ring, doorbell, core, peer, core_now, peer_now, sent,
                 consumed, published, polled>>
  /\ IpcOnly

NextIPCMagic == NextIPC \/ ShmClobberCmdMagic \/ ShmClobberRspMagic

(***************************************************************************)
(* Flight recorder (kernel/trace/flightrec.c).  An event keeps its type,   *)
(* job id, step id and extra word; the two timestamps are left out.  head  *)
(* is a uint32_t that only grows; every reader uses it through             *)
(* head & TRACE_BUF_MASK and min(head, TRACE_BUF_SIZE), so the model keeps *)
(* the representative of head below 2 * TraceBufSize with the same two     *)
(* values.  to_wrap counts the increments left before head++ wraps the     *)
(* uint32_t to 0; 0 stands for more than a behaviour of the model makes    *)
(* (after boot: 2^32).  hist is a history field the code does not have:    *)
(* the events logged so far in logging order, cut to the TraceBufSize most *)
(* recent ones.                                                            *)
(***************************************************************************)
TRACE_EVT_SCHED_TICK             == 0
TRACE_EVT_JOB_SUBMIT             == 1
TRACE_EVT_JOB_COMPLETE           == 2
TRACE_EVT_STEP_START             == 3
TRACE_EVT_STEP_END               == 4
TRACE_EVT_JOB_ADMIT              == 6
TRACE_EVT_JOB_REJECT             == 7
TRACE_EVT_CONTRACT_APPLY         == 16
TRACE_EVT_CONTRACT_BUDGET_WARN   == 17
TRACE_EVT_CONTRACT_BUDGET_EXCEED == 18
TRACE_EVT_CONTRACT_VIOLATION     == 19
TRACE_EVT_CONTRACT_STATE_CHANGE  == 20
TRACE_EVT_CONTRACT_SAFE_MODE     == 21
TRACE_EVT_MEM_ALLOC              == 32
TRACE_EVT_MEM_FREE               == 33
TRACE_EVT_MEM_ALLOC_FAIL         == 34
TRACE_EVT_MEM_LOCALITY_MISS      == 35
TRACE_EVT_MEM_CONTRACT_EXCEED    == 36
TRACE_EVT_BOOT                   == 240

MAX_ACTIVE_SPANS == 16
MAX_STEP_DEPS    == 4

Evt(type, job_id, step_id, extra) ==
  [type |-> type, job_id |-> job_id, step_id |-> step_id, extra |-> extra]

ZeroEvent == Evt(0, 0, 0, 0)

ZeroSpan == [active |-> 0, job_id |-> 0, step_id |-> 0, start_type |-> 0]

SetMin(S) == CHOOSE x \in S : \A y \in S : x <= y

HeadNorm(h) ==
  IF h <= TraceBufSize THEN h ELSE TraceBufSize + (h % TraceBufSize)

\* the last TraceBufSize events of a sequence
Recent(es) ==
  IF Len(es) <= TraceBufSize THEN es
  ELSE SubSeq(es, Len(es) - TraceBufSize + 1, Len(es))

flightrec_log(f, e) ==
  [f EXCEPT !.buf[f.head % TraceBufSize] = e,
            !.head = IF f.to_wrap = 1 THEN 0 ELSE HeadNorm(f.head + 1),
            !.to_wrap = IF f.to_wrap = 0 THEN 0 ELSE f.to_wrap - 1,
            !.hist = Recent(Append(f.hist, e))]

RECURSIVE LogAll(_, _)
LogAll(f, es) ==
  IF es = <<>> THEN f ELSE LogAll(flightrec_log(f, Head(es)), Tail(es))

\* flightrec_init: empty ring and span table, then the BOOT event
InitFlightrec ==
  flightrec = flightrec_log(
                [buf   |-> [i \in 0..(TraceBufSize - 1) |-> ZeroEvent],
                 head  |-> 0,
                 to_wrap |-> 0,
                 hist  |-> <<>>,
                 spans |-> [i \in 0..(MAX_ACTIVE_SPANS - 1) |-> ZeroSpan]],
                Evt(TRACE_EVT_BOOT, 0, 0, 0))

FreeSpans(f) == {i \in 0..(MAX_ACTIVE_SPANS - 1) : f.spans[i].active = 0}

\* handle returned by flightrec_begin_span: slot + 1, or 0 without a slot
flightrec_begin_span_handle(f) ==
  IF FreeSpans(f) = {} THEN 0 ELSE SetMin(FreeSpans(f)) + 1

flightrec_begin_span(f, start_type, job_id, step_id) ==
  IF FreeSpans(f) = {}
  THEN flightrec_log(f, Evt(TRACE_EVT_CONTRACT_VIOLATION, job_id, step_id,
                            57005))
  ELSE flightrec_log(
         [f EXCEPT !.spans[SetMin(FreeSpans(f))] =
            [active |-> 1, job_id |-> job_id, step_id |-> step_id,
             start_type |-> start_type]],
         Evt(start_type, job_id, step_id, 0))

\* duration_usec is the time measured between begin and end of the span
flightrec_end_span(f, span, end_type, duration_usec) ==
  IF span = 0 \/ span - 1 >= MAX_ACTIVE_SPANS \/ f.spans[span - 1].active = 0
  THEN f
  ELSE [flightrec_log(f, Evt(end_type, f.spans[span - 1].job_id,
                             f.spans[span - 1].step_id, duration_usec))
          EXCEPT !.spans[span - 1].active = 0]

flightrec_last_duration(f, job_id, step_id) ==
  LET count == IF f.head > TraceBufSize THEN TraceBufSize ELSE f.head
      at(i) == f.buf[(f.head - 1 - i) % TraceBufSize]
      hits  == {i \in 0..(count - 1) :
                  /\ at(i).type = TRACE_EVT_STEP_END
                  /\ at(i).job_id = job_id
                  /\ at(i).step_id = step_id}
  IN  IF hits = {} THEN 0 ELSE at(SetMin(hits)).extra

\* the slots flightrec_last_duration visits, in the order it visits them
DurationScan(f) ==
  LET count == IF f.head > TraceBufSize THEN TraceBufSize ELSE f.head
  IN  [i \in 1..count |-> f.buf[(f.head - i) % TraceBufSize]]

\* the slots flightrec_get_job_stats visits, in the order it visits them
StatsScan(f) ==
  LET count == IF f.head > TraceBufSize THEN TraceBufSize ELSE f.head
  IN  [i \in 1..count |->
         f.buf[IF f.head > TraceBufSize
               THEN (f.head - TraceBufSize + (i - 1)) % TraceBufSize
               ELSE i - 1]]

ZeroStats(job_id) ==
  [job_id |-> job_id, steps_completed |-> 0, total_cpu_usec |-> 0,
   violations |-> 0]

\* a variant that also counts BUDGET_WARN events as violations
StatsOf_CountsWarn(es, job_id) ==
  LET RECURSIVE Acc(_, _)
      Acc(out, i) ==
        IF i > Len(es) THEN out
        ELSE IF es[i].job_id # job_id THEN Acc(out, i + 1)
        ELSE IF es[i].type = TRACE_EVT_STEP_END
        THEN Acc([out EXCEPT !.steps_completed = @ + 1,
                             !.total_cpu_usec = @ + es[i].extra], i + 1)
        ELSE IF es[i].type \in {TRACE_EVT_CONTRACT_VIOLATION,
                                TRACE_EVT_CONTRACT_BUDGET_EXCEED,
                                TRACE_EVT_CONTRACT_BUDGET_WARN}
        THEN Acc([out EXCEPT !.violations = @ + 1], i + 1)
        ELSE Acc(out, i + 1)
  IN  Acc(ZeroStats(job_id), 1)

\* the loop of flightrec_get_job_stats over the events it visits
\* (total_wall_usec, made from the timestamps, is left out)
StatsOf(es, job_id) ==
  LET RECURSIVE Acc(_, _)
      Acc(out, i) ==
        IF i > Len(es) THEN out
        ELSE IF es[i].job_id # job_id THEN Acc(out, i + 1)
        ELSE IF es[i].type = TRACE_EVT_STEP_END
        THEN Acc([out EXCEPT !.steps_completed = @ + 1,
                             !.total_cpu_usec = @ + es[i].extra], i + 1)
        ELSE IF es[i].type \in {TRACE_EVT_CONTRACT_VIOLATION,
                                TRACE_EVT_CONTRACT_BUDGET_EXCEED}
        THEN Acc([out EXCEPT !.violations = @ + 1], i + 1)
        ELSE Acc(out, i + 1)
  IN  Acc(ZeroStats(job_id), 1)

flightrec_get_job_stats(f, job_id) == StatsOf(StatsScan(f), job_id)

(***************************************************************************)
(* Contract engine (kernel/contracts.c) over the physical page allocator   *)
(* (kernel/mm/pmm.c through kernel/zenedge_alloc.c).  One action per call; *)
(* the kernel calls them from a single thread.  Counters are uint32_t in   *)
(* the source; MaxCalls keeps every sum far below 2^32.                    *)
(***************************************************************************)
CONTRACT_PRIORITY_LOW      == 0
CONTRACT_PRIORITY_NORMAL   == 1
CONTRACT_PRIORITY_HIGH     == 2
CONTRACT_PRIORITY_REALTIME == 3

CONTRACT_STATE_OK        == 0
CONTRACT_STATE_WARNED    == 1
CONTRACT_STATE_SAFE_MODE == 2

NUMA_NODE_LOCAL  == 0
NUMA_NODE_REMOTE == 1
NUMA_NODE_ANY    == 255
ZNODE_LOCAL      == 0
ZNODE_REMOTE     == 1
ZNODE_ANY        == 255
numa_node_count  == 2

PAGE_SIZE == 4096

\* a variant that charges a page by its size in bytes
page_kb_InBytes == PAGE_SIZE

\* uint32_t page_kb of contract_alloc_page
page_kb   == PAGE_SIZE \div 1024

\* violation counts at which a WARNED contract is moved to SAFE_MODE
CpuViolationLimit == 3
MemViolationLimit == 2

\* ---- the page allocator: frames 1..MaxFrames, the last one on node 1 ----
PmmFrames == 1..MaxFrames

pmm_addr_to_node(f) == IF f < MaxFrames THEN 0 ELSE 1

\* lowest free frame of the node, 0 when the node is exhausted
alloc_from_node(used, node) ==
  LET free == {f \in PmmFrames \ used : pmm_addr_to_node(f) = node}
  IN  IF node >= numa_node_count \/ free = {} THEN 0 ELSE SetMin(free)

OtherNode(node) == 1 - node

pmm_alloc_page(used, node) ==
  IF node = NUMA_NODE_ANY
  THEN IF alloc_from_node(used, 0) # 0 THEN alloc_from_node(used, 0)
       ELSE alloc_from_node(used, 1)
  ELSE LET n == IF node >= numa_node_count THEN 0 ELSE node
       IN  IF alloc_from_node(used, n) # 0 THEN alloc_from_node(used, n)
           ELSE alloc_from_node(used, OtherNode(n))

\* events pmm_alloc_page itself writes to the flight recorder
pmm_alloc_log(used, node) ==
  LET n == IF node = NUMA_NODE_ANY \/ node >= numa_node_count THEN 0 ELSE node
  IN  IF alloc_from_node(used, n) # 0 THEN <<>>
      ELSE IF alloc_from_node(used, OtherNode(n)) # 0
           THEN IF node = NUMA_NODE_ANY
                THEN <<Evt(TRACE_EVT_MEM_LOCALITY_MISS, 0, 0, 1)>>
                ELSE <<Evt(TRACE_EVT_MEM_LOCALITY_MISS, 0, n, OtherNode(n))>>
           ELSE IF node = NUMA_NODE_ANY THEN <<>>
                ELSE <<Evt(TRACE_EVT_MEM_ALLOC_FAIL, 0, n, 1)>>

\* pmm_free_page: an address outside the map or already free is ignored
pmm_free_page(used, addr) == used \ {addr}

\* ---- contract_set_state ----
contract_set_state(c, new_state) ==
  IF c.state = new_state THEN c ELSE [c EXCEPT !.state = new_state]

contract_set_state_log(c, new_state) ==
  IF c.state = new_state THEN <<>>
  ELSE <<Evt(TRACE_EVT_CONTRACT_STATE_CHANGE, c.job_id, c.state,
             new_state)>> \o
       (IF new_state = CONTRACT_STATE_SAFE_MODE
        THEN <<Evt(TRACE_EVT_CONTRACT_SAFE_MODE, c.job_id, 0,
                   c.cpu_violations + c.mem_violations)>>
        ELSE <<>>)

\* a variant that logs the transition before it assigns c->state
contract_set_state_seen_LogsFirst(c, new_state) ==
  IF c.state = new_state THEN <<>>
  ELSE <<c.state>> \o
       (IF new_state = CONTRACT_STATE_SAFE_MODE
        THEN <<contract_set_state(c, new_state).state>> ELSE <<>>)

\* c->state as it stands at each flightrec_log call of contract_set_state,
\* in the order of the calls: the assignment precedes both
contract_set_state_seen(c, new_state) ==
  IF c.state = new_state THEN <<>>
  ELSE LET c1 == contract_set_state(c, new_state)
       IN  <<c1.state>> \o
           (IF new_state = CONTRACT_STATE_SAFE_MODE
            THEN <<c1.state>> ELSE <<>>)

\* a variant that escalates to SAFE_MODE one violation early
ContractEscalate_Early(c, violations, limit) ==
  IF c.state = CONTRACT_STATE_OK THEN CONTRACT_STATE_WARNED
  ELSE IF c.state = CONTRACT_STATE_WARNED /\ violations + 1 >= limit
       THEN CONTRACT_STATE_SAFE_MODE
       ELSE c.state

\* the transition block shared by the three detecting calls: the state the
\* call passes to contract_set_state (its own state when it passes none)
ContractEscalate(c, violations, limit) ==
  IF c.state = CONTRACT_STATE_OK THEN CONTRACT_STATE_WARNED
  ELSE IF c.state = CONTRACT_STATE_WARNED /\ violations >= limit
       THEN CONTRACT_STATE_SAFE_MODE
       ELSE c.state

\* ---- inputs ----
CpuBudgets  == {1000}
MemBudgets  == {8, 16}
Priorities  == {CONTRACT_PRIORITY_NORMAL, CONTRACT_PRIORITY_REALTIME}
UsecCharges == {500, 2000}
KbCharges   == {4, 12}
FreeAddrs   == 0..MaxFrames
SetStates   == {CONTRACT_STATE_OK, CONTRACT_STATE_WARNED,
                CONTRACT_STATE_SAFE_MODE}

Call(op, ret, asked, log) ==
  [op |-> op, ret |-> ret, pmm |-> asked, log |-> log, seen |-> <<>>]

\* a call that went through the transition block: seen is what
\* contract_set_state found in c->state when it logged
CallSet(op, ret, log, c, new_state) ==
  [Call(op, ret, FALSE, log \o contract_set_state_log(c, new_state))
     EXCEPT !.seen = contract_set_state_seen(c, new_state)]

\* job id the caller gives its contract
ContractJobId == 1

\* contract_apply on a contract whose budget fields the caller has filled in
Applied(cpu_budget_us, memory_kb, prio) ==
  [cpu_budget_us  |-> cpu_budget_us,
   memory_kb      |-> memory_kb,
   prio           |-> prio,
   preferred_node |-> IF prio = CONTRACT_PRIORITY_REALTIME
                      THEN NUMA_NODE_LOCAL ELSE NUMA_NODE_REMOTE,
   cpu_used_us    |-> 0,
   mem_used_kb    |-> 0,
   cpu_violations |-> 0,
   mem_violations |-> 0,
   state          |-> CONTRACT_STATE_OK,
   job_id         |-> ContractJobId]

InitContract ==
  /\ con = Applied(1000, 16, CONTRACT_PRIORITY_NORMAL)
  /\ pmm_used = {}
  /\ con_held = {}
  /\ con_last = Call("contract_apply", 0, FALSE,
                     <<Evt(TRACE_EVT_CONTRACT_APPLY, ContractJobId, 0, 1000)>>)
  /\ con_calls = 0

ConCall == con_calls < MaxCalls /\ con_calls' = con_calls + 1 /\ ConOnly

\* the events a call logs go to the trace ring
ConLog == flightrec' = LogAll(flightrec, con_last'.log)

ContractApply ==
  /\ ConCall
  /\ \E b \in CpuBudgets, m \in MemBudgets, p \in Priorities :
       /\ con' = Applied(b, m, p)
       /\ con_last' = Call("contract_apply", 0, FALSE,
                        <<Evt(TRACE_EVT_CONTRACT_APPLY, ContractJobId, 0, b)>>)
  /\ UNCHANGED <<pmm_used, con_held>>
  /\ ConLog

ContractChargeCpu ==
  /\ ConCall
  /\ \E usec \in UsecCharges :
       LET c1 == [con EXCEPT !.cpu_used_us = @ + usec]
           c2 == [c1 EXCEPT !.cpu_violations = @ + 1]
           s  == ContractEscalate(c2, c2.cpu_violations, CpuViolationLimit)
       IN  IF c1.cpu_used_us > c1.cpu_budget_us
           THEN /\ con' = contract_set_state(c2, s)
                /\ con_last' = CallSet("contract_charge_cpu", 1,
                                 <<Evt(TRACE_EVT_CONTRACT_BUDGET_EXCEED,
                                       c2.job_id, 0, c2.cpu_used_us)>>,
                                 c2, s)
           ELSE /\ con' = c1
                /\ con_last' = Call("contract_charge_cpu", 0, FALSE, <<>>)
  /\ UNCHANGED <<pmm_used, con_held>>
  /\ ConLog

ContractChargeMemory ==
  /\ ConCall
  /\ \E kb \in KbCharges :
       LET c1 == [con EXCEPT !.mem_used_kb = @ + kb]
           c2 == [c1 EXCEPT !.mem_violations = @ + 1]
           s  == ContractEscalate(c2, c2.mem_violations, MemViolationLimit)
       IN  IF c1.mem_used_kb > c1.memory_kb
           THEN /\ con' = contract_set_state(c2, s)
                /\ con_last' = CallSet("contract_charge_memory", 1,
                                 <<Evt(TRACE_EVT_MEM_CONTRACT_EXCEED,
                                       c2.job_id, 0, c2.mem_used_kb)>>,
                                 c2, s)
           ELSE /\ con' = c1
                /\ con_last' = Call("contract_charge_memory", 0, FALSE, <<>>)
  /\ UNCHANGED <<pmm_used, con_held>>
  /\ ConLog

\* a variant that never refuses a page on account of the state
InSafeMode_Never(c) == FALSE

\* the check at the top of contract_alloc_page
InSafeMode(c) == c.state = CONTRACT_STATE_SAFE_MODE

ContractAllocPage ==
  /\ ConCall
  /\ IF InSafeMode(con)
     THEN /\ con_last' = Call("contract_alloc_page", 0, FALSE,
                              <<Evt(TRACE_EVT_MEM_ALLOC_FAIL, con.job_id,
                                    0, 0)>>)
          /\ UNCHANGED <<con, pmm_used, con_held>>
     ELSE IF con.mem_used_kb + page_kb > con.memory_kb
     THEN LET c2 == [con EXCEPT !.mem_violations = @ + 1]
              s  == ContractEscalate(c2, c2.mem_violations, MemViolationLimit)
          IN  /\ con' = contract_set_state(c2, s)
              /\ con_last' = CallSet("contract_alloc_page", 0,
                               <<Evt(TRACE_EVT_MEM_CONTRACT_EXCEED, c2.job_id,
                                     0, c2.mem_used_kb + page_kb)>>,
                               c2, s)
              /\ UNCHANGED <<pmm_used, con_held>>
     ELSE LET node_pref == IF con.preferred_node = NUMA_NODE_LOCAL
                           THEN ZNODE_LOCAL
                           ELSE IF con.preferred_node = NUMA_NODE_REMOTE
                                THEN ZNODE_REMOTE ELSE ZNODE_ANY
              addr == pmm_alloc_page(pmm_used, node_pref)
          IN  /\ con' = IF addr # 0
                        THEN [con EXCEPT !.mem_used_kb = @ + page_kb]
                        ELSE con
              /\ pmm_used' = IF addr # 0 THEN pmm_used \cup {addr}
                             ELSE pmm_used
              /\ con_held' = IF addr # 0 THEN con_held \cup {addr}
                             ELSE con_held
              /\ con_last' = Call("contract_alloc_page", addr, TRUE,
                               pmm_alloc_log(pmm_used, node_pref) \o
                               (IF addr # 0
                                THEN <<Evt(TRACE_EVT_MEM_ALLOC, con.job_id,
                                           pmm_addr_to_node(addr), 1)>>
                                ELSE <<>>))
  /\ ConLog

ContractFreePage ==
  /\ ConCall
  /\ \E addr \in FreeAddrs :
       IF addr = 0
       THEN /\ con_last' = Call("contract_free_page", 0, FALSE, <<>>)
            /\ UNCHANGED <<con, pmm_used, con_held>>
       ELSE /\ pmm_used' = pmm_free_page(pmm_used, addr)
            /\ con_held' = con_held \ {addr}
            /\ con' = IF con.mem_used_kb >= page_kb
                      THEN [con EXCEPT !.mem_used_kb = @ - page_kb]
                      ELSE con
            /\ con_last' = Call("contract_free_page", 0, FALSE,
                                <<Evt(TRACE_EVT_MEM_FREE, con.job_id,
                                      pmm_addr_to_node(addr), 1)>>)
  /\ ConLog

\* contract_set_state called directly (it is exported by contracts.h)
ContractSetState ==
  /\ ConCall
  /\ \E new_state \in SetStates :
       /\ con' = contract_set_state(con, new_state)
       /\ con_last' = CallSet("contract_set_state", new_state, <<>>,
                              con, new_state)
  /\ UNCHANGED <<pmm_used, con_held>>
  /\ ConLog

NextContract ==
  \/ ContractApply \/ ContractChargeCpu \/ ContractChargeMemory
  \/ ContractAllocPage \/ ContractFreePage

NextContractSet == NextContract \/ ContractSetState

\* the four calls that can move the state of an applied contract
NextContractState ==
  \/ ContractChargeCpu \/ ContractChargeMemory
  \/ ContractAllocPage \/ ContractSetState

\* a contract whose memory is used through the page calls only
NextContractPages == ContractApply \/ ContractAllocPage \/ ContractFreePage

(***************************************************************************)
(* Job graph (kernel/job/job_graph.c).  The tensor registry is left out:   *)
(* job_graph_compute_memory derives the three memory metrics from it, and  *)
(* any triple with pinned <= total can be produced: peak sums a step's     *)
(* inputs and outputs, a tensor listed twice counts twice, so peak may     *)
(* exceed total, and it is 0 without a step.  The jobs here have tensors.  *)
(***************************************************************************)
STEP_TYPE_COMPUTE    == 0
STEP_TYPE_COLLECTIVE == 1
STEP_TYPE_IO         == 2
STEP_TYPE_CONTROL    == 3

JobGraphId == 1
StepIds    == {1, 2}
StepTypes  == {STEP_TYPE_COMPUTE, STEP_TYPE_IO}
MemoryKbs  == {4, 20}

\* index of the first step carrying the id, 0 when there is none
find_step(j, id) ==
  LET hits == {i \in 1..Len(j.steps) : j.steps[i].id = id}
  IN  IF hits = {} THEN 0 ELSE SetMin(hits)

\* execute_step's locals between STEP_START and STEP_END: the step, its
\* span handle, timeout_ms, how the wait ended, and cmd_no, the number of
\* commands published when this step's command was (0 if none was sent)
NoExec == [sid |-> 0, span |-> 0, timeout_ms |-> 0, outcome |-> "none",
           cmd_no |-> 0]

\* job_graph_init
InitJob ==
  /\ job_graph = [id |-> JobGraphId, steps |-> <<>>, total_memory_kb |-> 0,
            peak_memory_kb |-> 0, pinned_memory_kb |-> 0]
  /\ job_deps = 0
  /\ sched = [pc |-> "idle", submits |-> 0, completes |-> 0, open |-> 0,
              last |-> [sid |-> 0, idx |-> 0, picked |-> 0, duration |-> 0,
                        budget |-> 0, log |-> <<>>, ready |-> {}],
              exec |-> NoExec]

Building == sched.pc = "idle" /\ con_calls = 0

JobGraphAddStep ==
  /\ Building
  /\ Len(job_graph.steps) < MaxSteps
  /\ \E id \in StepIds, type \in StepTypes :
       job_graph' = [job_graph EXCEPT !.steps = Append(@,
                 [id |-> id, type |-> type, deps |-> <<>>, ready |-> 1,
                  completed |-> 0])]
  /\ UNCHANGED <<job_deps, sched>>
  /\ JobOnly

JobGraphAddDep ==
  /\ Building
  /\ job_deps < MaxDepCalls
  /\ job_deps' = job_deps + 1
  /\ \E step \in StepIds, depends_on \in StepIds :
       LET s == find_step(job_graph, step)
       IN  IF s = 0 \/ find_step(job_graph, depends_on) = 0
              \/ Len(job_graph.steps[s].deps) >= MAX_STEP_DEPS
           THEN UNCHANGED job_graph
           ELSE job_graph' = [job_graph EXCEPT !.steps[s].deps = Append(@, depends_on),
                                   !.steps[s].ready = 0]
  /\ UNCHANGED sched
  /\ JobOnly

JobGraphComputeMemory ==
  /\ Building
  /\ \E total \in MemoryKbs, pinned \in MemoryKbs,
        peak \in IF job_graph.steps = <<>> THEN {0} ELSE MemoryKbs :
       /\ pinned <= total
       /\ job_graph' = [job_graph EXCEPT !.total_memory_kb = total,
                             !.pinned_memory_kb = pinned,
                             !.peak_memory_kb = peak]
  /\ UNCHANGED <<job_deps, sched>>
  /\ JobOnly

\* the smallest id among the steps that are ready and not completed
LowestReadyId(j) ==
  LET ids == {j.steps[i].id : i \in {k \in 1..Len(j.steps) :
                 j.steps[k].ready = 1 /\ j.steps[k].completed = 0}}
  IN  IF ids = {} THEN -1 ELSE SetMin(ids)

\* id of the first step in array order that is ready and not completed
job_graph_next_ready(j) ==
  LET hits == {i \in 1..Len(j.steps) :
                 j.steps[i].ready = 1 /\ j.steps[i].completed = 0}
  IN  IF hits = {} THEN -1 ELSE j.steps[SetMin(hits)].id

AllDepsDone(j, t) ==
  \A d \in 1..Len(t.deps) :
    find_step(j, t.deps[d]) # 0 /\ j.steps[find_step(j, t.deps[d])].completed = 1

\* a variant that makes every open step ready, whatever it depends on
job_graph_mark_completed_ReadiesAll(j, step) ==
  IF find_step(j, step) = 0 THEN j
  ELSE LET j1 == [j EXCEPT !.steps[find_step(j, step)].completed = 1]
       IN  [j1 EXCEPT !.steps = [i \in 1..Len(j1.steps) |->
              IF j1.steps[i].completed = 0
              THEN [j1.steps[i] EXCEPT !.ready = 1]
              ELSE j1.steps[i]]]

job_graph_mark_completed(j, step) ==
  IF find_step(j, step) = 0 THEN j
  ELSE LET j1 == [j EXCEPT !.steps[find_step(j, step)].completed = 1]
       IN  [j1 EXCEPT !.steps = [i \in 1..Len(j1.steps) |->
              IF j1.steps[i].completed = 0 /\ AllDepsDone(j1, j1.steps[i])
              THEN [j1.steps[i] EXCEPT !.ready = 1]
              ELSE j1.steps[i]]]

(***************************************************************************)
(* Admission control (kernel/contracts.c, contract_admit_job).             *)
(* available_kb is a uint32_t difference; it is kept as two 16-bit limbs   *)
(* so that the wrap of memory_kb - mem_used_kb is the value the machine    *)
(* computes.                                                               *)
(***************************************************************************)
ADMIT_OK                  == 0
ADMIT_REJECT_MEMORY       == 1
ADMIT_REJECT_CPU          == 2
ADMIT_REJECT_PRIORITY     == 3
ADMIT_REJECT_NO_RESOURCES == 4

Limb == 65536

\* a value below 2^31 as a uint32_t
U32(x) == <<x \div Limb, x % Limb>>

U32Int(p) == p[1] * Limb + p[2]

\* a - b in uint32_t arithmetic, for a and b below 2^31
U32Sub(a, b) ==
  IF a >= b
  THEN U32(a - b)
  ELSE <<(Limb - 1) - ((b - a - 1) \div Limb),
         (Limb - 1) - ((b - a - 1) % Limb)>>

U32Gt(p, q) == p[1] > q[1] \/ (p[1] = q[1] /\ p[2] > q[2])

StepEstimate(type) ==
  CASE type = STEP_TYPE_COMPUTE    -> 1000
    [] type = STEP_TYPE_COLLECTIVE -> 3000
    [] type = STEP_TYPE_IO         -> 2000
    [] type = STEP_TYPE_CONTROL    -> 100
    [] OTHER                       -> 0

RECURSIVE EstimateCpu(_)
EstimateCpu(steps) ==
  IF steps = <<>> THEN 0
  ELSE StepEstimate(Head(steps).type) + EstimateCpu(Tail(steps))

\* what a call returns and logs, and the contract and the job it leaves
Admitted(ret, log, c, jg) == [ret |-> ret, log |-> log, c |-> c, job |-> jg]

\* a variant in which an admitted job's peak memory is taken from the contract
contract_admit_job_Reserving(c, jg) ==
  IF jg.peak_memory_kb > c.memory_kb \/ jg.pinned_memory_kb > c.memory_kb
  THEN Admitted(ADMIT_REJECT_MEMORY,
                <<Evt(TRACE_EVT_JOB_REJECT, jg.id, ADMIT_REJECT_MEMORY,
                      jg.peak_memory_kb)>>, c, jg)
  ELSE IF jg.peak_memory_kb + c.mem_used_kb > c.memory_kb
  THEN Admitted(ADMIT_REJECT_NO_RESOURCES,
                <<Evt(TRACE_EVT_JOB_REJECT, jg.id, ADMIT_REJECT_NO_RESOURCES,
                      0)>>, c, jg)
  ELSE Admitted(ADMIT_OK,
                <<Evt(TRACE_EVT_JOB_ADMIT, jg.id, jg.peak_memory_kb,
                      EstimateCpu(jg.steps))>>,
                [c EXCEPT !.mem_used_kb = @ + jg.peak_memory_kb], jg)

contract_admit_job(c, jg) ==
  LET available_kb     == U32Sub(c.memory_kb, c.mem_used_kb)
      estimated_cpu_us == EstimateCpu(jg.steps)
  IN  IF jg.peak_memory_kb > c.memory_kb
      THEN Admitted(ADMIT_REJECT_MEMORY,
                    <<Evt(TRACE_EVT_JOB_REJECT, jg.id, ADMIT_REJECT_MEMORY,
                          jg.peak_memory_kb)>>, c, jg)
      ELSE IF jg.pinned_memory_kb > c.memory_kb
      THEN Admitted(ADMIT_REJECT_MEMORY,
                    <<Evt(TRACE_EVT_JOB_REJECT, jg.id, ADMIT_REJECT_MEMORY,
                          jg.pinned_memory_kb)>>, c, jg)
      ELSE IF U32Gt(U32(jg.peak_memory_kb), available_kb)
      THEN Admitted(ADMIT_REJECT_NO_RESOURCES,
                    <<Evt(TRACE_EVT_JOB_REJECT, jg.id,
                          ADMIT_REJECT_NO_RESOURCES, U32Int(available_kb))>>,
                    c, jg)
      ELSE Admitted(ADMIT_OK,
                    (IF estimated_cpu_us > c.cpu_budget_us
                     THEN <<Evt(TRACE_EVT_CONTRACT_BUDGET_WARN, jg.id, 0,
                                estimated_cpu_us)>>
                     ELSE <<>>) \o
                    <<Evt(TRACE_EVT_JOB_ADMIT, jg.id, jg.peak_memory_kb,
                          estimated_cpu_us)>>, c, jg)

AdmitCallsLeft == con_calls < MaxAdmitCalls

ContractAdmitJob ==
  /\ sched.pc = "idle"
  /\ AdmitCallsLeft
  /\ con_calls' = con_calls + 1
  /\ \E r \in {contract_admit_job(con, job_graph)} :
       /\ con' = r.c
       /\ job_graph' = r.job
       /\ con_last' = Call("contract_admit_job", r.ret, FALSE, r.log)
  /\ UNCHANGED <<pmm_used, con_held, job_deps, sched, vars_ifr, vars_ipc,
                 vars_heap>>
  /\ ConLog

\* charges made on the contract between admission calls
AdmitChargeCpu == AdmitCallsLeft /\ ContractChargeCpu

AdmitChargeMemory == AdmitCallsLeft /\ ContractChargeMemory

NextAdmit ==
  \/ JobGraphAddStep \/ JobGraphComputeMemory
  \/ AdmitChargeCpu \/ AdmitChargeMemory \/ ContractAdmitJob

(***************************************************************************)
(* Shared heap (kernel/ipc/heap.c).  Only the allocator's bookkeeping is   *)
(* modelled: heap_ctl, blob_table and, of the data area, the blob header   *)
(* at the start of each block (hdr), which heap_get_blob reads; the tensor *)
(* header and the payload are read by none of the calls.  A size is a      *)
(* uint32_t, kept as two 16-bit limbs, so that size + sizeof(heap_blob_t)  *)
(* and the rounding to blocks wrap as they do on the machine.              *)
(* next_blob_id, a uint32_t, would need 2^32 allocations to wrap.          *)
(***************************************************************************)
HEAP_BLOCK_SIZE == 64
SizeofHeapBlob     == 32
SizeofTensorHeader == 36
BlobIdValues == 65536

BLOB_MAGIC == 1112297282   \* 0x424C4F42 "BLOB"
HeapNull   == -1           \* NULL, where a call returns a heap_data offset

BLOB_TYPE_RAW    == 0
BLOB_TYPE_TENSOR == 1

DTYPE_FLOAT32 == 0
DTYPE_FLOAT16 == 1
DTYPE_INT32   == 2
DTYPE_INT16   == 3
DTYPE_INT8    == 4
DTYPE_UINT8   == 5

\* ---- inputs ----
HeapDataSize == HeapMaxBlocks * HEAP_BLOCK_SIZE

HeapSizes  == {U32(1), U32(40),
               U32(HeapDataSize - SizeofHeapBlob),
               U32(HeapDataSize - SizeofHeapBlob + 1),
               <<Limb - 1, Limb - SizeofHeapBlob>>,
               <<Limb - 1, Limb - 1>>}
HeapDtypes == {DTYPE_FLOAT32, DTYPE_UINT8}
HeapShapes == {<<>>, <<1>>, <<4, 4>>}

\* find_free_blocks: start of the first run of count free blocks, -1 if none
find_free_blocks(bitmap, count) ==
  LET starts == {s \in 0..(HeapMaxBlocks - 1) :
                   /\ bitmap[s] = 0
                   /\ s + count <= HeapMaxBlocks \/ count = 0
                   /\ \A k \in 0..(count - 1) : bitmap[s + k] = 0}
  IN  IF starts = {} THEN -1 ELSE SetMin(starts)

BlocksFrom(start, blocks) == start..(start + blocks - 1)

\* what a call returns and the heap it leaves
HeapResult(ret, h, made) == [ret |-> ret, heap |-> h, made |-> made]

\* heap_alloc: made is the set of <<start, blocks>> carved out (empty on
\* failure)
\* p + k in uint32_t arithmetic, for k below 2^16
U32Add(p, k) ==
  LET lo == p[2] + k
  IN  <<(p[1] + lo \div Limb) % Limb, lo % Limb>>

\* p / HEAP_BLOCK_SIZE, which is below 2^26
U32DivBlock(p) == p[1] * (Limb \div HEAP_BLOCK_SIZE) + p[2] \div HEAP_BLOCK_SIZE

heap_alloc(h, size, type) ==
  LET total_size == U32Add(size, SizeofHeapBlob)
      blocks     == U32DivBlock(U32Add(total_size, HEAP_BLOCK_SIZE - 1))
      start      == find_free_blocks(h.bitmap, blocks)
      blob_id    == h.next_blob_id % BlobIdValues
      next       == IF h.next_blob_id + 1 = 0 THEN 1 ELSE h.next_blob_id + 1
      offset     == start * HEAP_BLOCK_SIZE
  IN  IF start = -1
      THEN HeapResult(0, h, {})
      ELSE HeapResult(blob_id,
             [h EXCEPT
                !.bitmap = [b \in 0..(HeapMaxBlocks - 1) |->
                              IF b \in BlocksFrom(start, blocks)
                              THEN 1 ELSE h.bitmap[b]],
                !.free_blocks = @ - blocks,
                !.next_blob_id = next,
                !.hdr[start] = [magic |-> BLOB_MAGIC, blob_id |-> blob_id,
                                size |-> size],
                !.blob_table =
                   IF Len(@) < MaxBlobs
                   THEN Append(@, [blob_id |-> blob_id, offset |-> offset,
                                   blocks |-> blocks])
                   ELSE @],
             {<<start, blocks>>})

dtype_size(dtype) ==
  CASE dtype \in {DTYPE_FLOAT32, DTYPE_INT32} -> 4
    [] dtype \in {DTYPE_FLOAT16, DTYPE_INT16} -> 2
    [] OTHER                                  -> 1

RECURSIVE Product(_)
Product(shape) ==
  IF shape = <<>> THEN 1 ELSE Head(shape) * Product(Tail(shape))

heap_alloc_tensor(h, dtype, shape) ==
  IF Len(shape) = 0 \/ Len(shape) > 4
  THEN HeapResult(0, h, {})
  ELSE heap_alloc(h,
                  U32(SizeofTensorHeader + Product(shape) * dtype_size(dtype)),
                  BLOB_TYPE_TENSOR)

heap_free(h, blob_id) ==
  LET hits == {i \in 1..Len(h.blob_table) : h.blob_table[i].blob_id = blob_id}
  IN  IF blob_id = 0 \/ hits = {}
      THEN h
      ELSE LET i      == SetMin(hits)
               n      == Len(h.blob_table)
               start  == h.blob_table[i].offset \div HEAP_BLOCK_SIZE
               blocks == h.blob_table[i].blocks
           IN  [h EXCEPT
                  !.bitmap = [b \in 0..(HeapMaxBlocks - 1) |->
                                IF b \in BlocksFrom(start, blocks)
                                THEN 0 ELSE h.bitmap[b]],
                  !.free_blocks = @ + blocks,
                  !.blob_table =
                     SubSeq([h.blob_table EXCEPT ![i] = h.blob_table[n]],
                            1, n - 1)]

\* a block that starts with no blob header
NoBlobHeader == [magic |-> 0, blob_id |-> 0, size |-> <<0, 0>>]

\* the header heap_alloc(1, BLOB_TYPE_RAW) writes for blob_id
RawHeader(blob_id) ==
  [magic |-> BLOB_MAGIC, blob_id |-> blob_id, size |-> <<0, 1>>]

\* the blocks a blob of data size sz takes, header included
BlobBlocks(sz) ==
  U32DivBlock(U32Add(U32Add(sz, SizeofHeapBlob), HEAP_BLOCK_SIZE - 1))

\* the slow path of heap_get_blob: the first block at or after b that
\* starts with the header of blob_id, stepping over the blobs found on the
\* way; HeapNull if the scan runs off the data area
RECURSIVE ScanHeap(_, _, _)
ScanHeap(h, blob_id, b) ==
  IF b >= HeapMaxBlocks THEN HeapNull
  ELSE IF h.hdr[b].magic # BLOB_MAGIC THEN ScanHeap(h, blob_id, b + 1)
  ELSE IF h.hdr[b].blob_id = blob_id THEN b
  ELSE ScanHeap(h, blob_id,
                b + (IF BlobBlocks(h.hdr[b].size) > 1
                     THEN BlobBlocks(h.hdr[b].size) ELSE 1))

\* heap_get_blob: ret is the block whose header is returned (HeapNull for
\* NULL); a blob found by the scan is entered in blob_table
heap_get_blob(h, blob_id) ==
  LET cached == {i \in 1..Len(h.blob_table) :
                   /\ h.blob_table[i].blob_id = blob_id
                   /\ h.hdr[h.blob_table[i].offset \div HEAP_BLOCK_SIZE]
                        = [h.hdr[h.blob_table[i].offset \div HEAP_BLOCK_SIZE]
                             EXCEPT !.magic = BLOB_MAGIC,
                                    !.blob_id = blob_id]}
      found  == ScanHeap(h, blob_id, 0)
  IN  IF blob_id = 0 THEN [ret |-> HeapNull, heap |-> h]
      ELSE IF cached # {}
      THEN [ret |-> h.blob_table[SetMin(cached)].offset \div HEAP_BLOCK_SIZE,
            heap |-> h]
      ELSE IF found = HeapNull THEN [ret |-> HeapNull, heap |-> h]
      ELSE [ret |-> found,
            heap |-> [h EXCEPT !.blob_table =
                        IF Len(@) < MaxBlobs
                        THEN Append(@, [blob_id |-> blob_id,
                                        offset |-> found * HEAP_BLOCK_SIZE,
                                        blocks |-> BlobBlocks(h.hdr[found].size)])
                        ELSE @]]

\* heap_get_data: the offset of the blob's data in heap_data, or HeapNull
heap_get_data(h, blob_id) ==
  LET g == heap_get_blob(h, blob_id)
  IN  [g EXCEPT !.ret = IF @ = HeapNull THEN HeapNull
                        ELSE @ * HEAP_BLOCK_SIZE + SizeofHeapBlob]

\* heap_get_blob_size: blob->size, or 0
heap_get_blob_size(h, blob_id) ==
  LET g == heap_get_blob(h, blob_id)
  IN  [g EXCEPT !.ret = IF @ = HeapNull THEN <<0, 0>>
                        ELSE h.hdr[@].size]

\* heap_init
HeapInitial ==
  [free_blocks  |-> HeapMaxBlocks,
   next_blob_id |-> 1,
   bitmap       |-> [b \in 0..(HeapMaxBlocks - 1) |-> 0],
   hdr          |-> [b \in 0..(HeapMaxBlocks - 1) |-> NoBlobHeader],
   blob_table   |-> <<>>]

HeapCall(op, arg, ret) ==
  [op |-> op, arg |-> arg, ret |-> ret,
   bitmap |-> heap.bitmap, free_blocks |-> heap.free_blocks]

InitHeap ==
  /\ heap = HeapInitial
  /\ heap_live = {}
  /\ heap_last = [op |-> "heap_init", arg |-> 0, ret |-> 0,
                  bitmap |-> HeapInitial.bitmap,
                  free_blocks |-> HeapInitial.free_blocks]
  /\ heap_calls = 0

\* the heap after heap_init and 65533 heap_alloc calls, each followed by
\* the heap_free of the id it returned
InitHeapLate ==
  /\ heap = [HeapInitial EXCEPT !.next_blob_id = BlobIdValues - 2,
                                !.hdr[0] = RawHeader(BlobIdValues - 3)]
  /\ heap_live = {}
  /\ heap_last = [op |-> "heap_free", arg |-> BlobIdValues - 3, ret |-> 0,
                  bitmap |-> [HeapInitial.bitmap EXCEPT ![0] = 1],
                  free_blocks |-> HeapInitial.free_blocks - 1]
  /\ heap_calls = 0

HeapCallCount ==
  heap_calls < MaxHeapCalls /\ heap_calls' = heap_calls + 1 /\ HeapOnly

HeapDone(op, arg, r) ==
  /\ heap' = r.heap
  /\ heap_last' = HeapCall(op, arg, r.ret)
  /\ heap_live' = heap_live \cup
                    {[id |-> r.ret, start |-> m[1], blocks |-> m[2]] :
                       m \in r.made}

HeapAlloc ==
  /\ HeapCallCount
  /\ \E size \in HeapSizes :
       HeapDone("heap_alloc", size, heap_alloc(heap, size, BLOB_TYPE_RAW))

HeapAllocTensor ==
  /\ HeapCallCount
  /\ \E dtype \in HeapDtypes, shape \in HeapShapes :
       HeapDone("heap_alloc_tensor", shape,
                heap_alloc_tensor(heap, dtype, shape))

\* heap_free of an id that was returned and not freed before, or of 0
HeapFree ==
  /\ HeapCallCount
  /\ \E blob_id \in {b.id : b \in heap_live} \cup {0} :
       /\ heap' = heap_free(heap, blob_id)
       /\ heap_last' = HeapCall("heap_free", blob_id, 0)
       /\ heap_live' = {b \in heap_live : b.id # blob_id \/ blob_id = 0}

NextHeap == HeapAlloc \/ HeapAllocTensor \/ HeapFree

\* the ids a caller holds: those of the live blobs and the one it passed
\* to its last heap_free or lookup
HeldIds ==
  {b.id : b \in heap_live} \cup
    (IF heap_last.op \in {"heap_free", "heap_get_blob", "heap_get_data",
                          "heap_get_blob_size"}
     THEN {heap_last.arg} ELSE {})

HeapLookup(op, blob_id, r) ==
  /\ heap' = r.heap
  /\ heap_last' = HeapCall(op, blob_id, r.ret)
  /\ UNCHANGED heap_live

HeapGetBlob ==
  /\ HeapCallCount
  /\ \E blob_id \in HeldIds :
       HeapLookup("heap_get_blob", blob_id, heap_get_blob(heap, blob_id))

HeapGetData ==
  /\ HeapCallCount
  /\ \E blob_id \in HeldIds :
       HeapLookup("heap_get_data", blob_id, heap_get_data(heap, blob_id))

HeapGetBlobSize ==
  /\ HeapCallCount
  /\ \E blob_id \in HeldIds :
       HeapLookup("heap_get_blob_size", blob_id,
                  heap_get_blob_size(heap, blob_id))

\* heap_free of an id the caller passed to its last heap_free or lookup
HeapFreeAgain ==
  /\ HeapCallCount
  /\ \E blob_id \in HeldIds \ {b.id : b \in heap_live} :
       /\ heap' = heap_free(heap, blob_id)
       /\ heap_last' = HeapCall("heap_free", blob_id, 0)
       /\ UNCHANGED heap_live

NextHeapGet ==
  \/ HeapAlloc \/ HeapFree
  \/ HeapGetBlob \/ HeapGetData \/ HeapGetBlobSize \/ HeapFreeAgain

(***************************************************************************)
(* sched_run_job (kernel/sched/sched_core.c), one action per loop          *)
(* iteration.  ctx->contract is con.  A step's duration is the time        *)
(* between its two span calls.  execute_step's ring traffic is the         *)
(* subject of SpecIPC; here a compute step only has one of its three       *)
(* outcomes, none of which sched_run_job looks at.                         *)
(***************************************************************************)
Durations == {400, 401, 500, 501, 2000}
Outcomes  == {"received", "send_failed", "timeout"}

ReadySet(j) ==
  {i \in 1..Len(j.steps) : j.steps[i].ready = 1 /\ j.steps[i].completed = 0}

SchedRunJobBegin ==
  /\ sched.pc = "idle"
  /\ flightrec' = flightrec_log(flightrec,
                    Evt(TRACE_EVT_JOB_SUBMIT, job_graph.id, 0, Len(job_graph.steps)))
  /\ sched' = [sched EXCEPT !.pc = "loop", !.submits = @ + 1]
  /\ UNCHANGED <<job_graph, job_deps>>
  /\ SchedOnly

\* a variant that counts a step exactly at its budget as exceeding it
BudgetCheck_Inclusive(job_id, sid, step_duration, per_step_budget) ==
  IF step_duration >= per_step_budget
  THEN <<Evt(TRACE_EVT_CONTRACT_BUDGET_EXCEED, job_id, sid, step_duration)>>
  ELSE IF step_duration > (per_step_budget * 80) \div 100
       THEN <<Evt(TRACE_EVT_CONTRACT_BUDGET_WARN, job_id, sid,
                  step_duration)>>
       ELSE <<>>

\* BUDGET_EXCEED / BUDGET_WARN check made after a step
BudgetCheck(job_id, sid, step_duration, per_step_budget) ==
  IF step_duration > per_step_budget
  THEN <<Evt(TRACE_EVT_CONTRACT_BUDGET_EXCEED, job_id, sid, step_duration)>>
  ELSE IF step_duration > (per_step_budget * 80) \div 100
       THEN <<Evt(TRACE_EVT_CONTRACT_BUDGET_WARN, job_id, sid,
                  step_duration)>>
       ELSE <<>>

SchedStep ==
  /\ sched.pc = "loop"
  /\ job_graph_next_ready(job_graph) >= 0
  /\ find_step(job_graph, job_graph_next_ready(job_graph)) # 0
  /\ \E outcome \in Outcomes :
       \/ outcome = "received"
       \/ job_graph.steps[find_step(job_graph,
             job_graph_next_ready(job_graph))].type = STEP_TYPE_COMPUTE
  /\ \E duration \in Durations,
        sid \in {job_graph_next_ready(job_graph)},
        span \in {flightrec_begin_span_handle(flightrec)},
        f1 \in {flightrec_begin_span(flightrec, TRACE_EVT_STEP_START,
                                     job_graph.id,
                                     job_graph_next_ready(job_graph))} :
       \E f2 \in {flightrec_end_span(f1, span, TRACE_EVT_STEP_END,
                                     duration)} :
         \E step_duration \in {flightrec_last_duration(f2, job_graph.id,
                                                       sid)},
            per_step_budget \in {con.cpu_budget_us \div Len(job_graph.steps)} :
           \E check \in {BudgetCheck(job_graph.id, sid, step_duration,
                                     per_step_budget)} :
             /\ flightrec' = LogAll(f2, check)
             /\ job_graph' = job_graph_mark_completed(job_graph, sid)
             /\ sched' = [sched EXCEPT !.last =
                  [sid |-> sid, idx |-> find_step(job_graph, sid),
                   picked |-> SetMin(ReadySet(job_graph)),
                   duration |-> duration, budget |-> per_step_budget,
                   log |-> check, ready |-> ReadySet(job_graph)]]
  /\ UNCHANGED job_deps
  /\ SchedOnly

SchedRunJobEnd ==
  /\ sched.pc = "loop"
  /\ job_graph_next_ready(job_graph) < 0
  /\ flightrec' = flightrec_log(flightrec,
                    Evt(TRACE_EVT_JOB_COMPLETE, job_graph.id, 0, 0))
  /\ sched' = [sched EXCEPT !.pc = "done", !.completes = @ + 1]
  /\ UNCHANGED <<job_graph, job_deps>>
  /\ SchedOnly

NextSched ==
  \/ JobGraphAddStep \/ JobGraphAddDep
  \/ SchedRunJobBegin \/ SchedStep \/ SchedRunJobEnd

(***************************************************************************)
(* execute_step with its ring traffic (kernel/sched/sched_core.c over      *)
(* kernel/ipc/ipc.c).  The kernel's calls are taken whole here: ipc_send   *)
(* and ipc_poll_response as one step each, the order of their memory       *)
(* accesses being the subject of SpecIPC; the peer keeps its steps.  A     *)
(* poll that finds nothing while the loop still spins (elapsed < 100000)   *)
(* changes no state; once the spin period is over every such poll is       *)
(* followed by pit_sleep_ms(1) and timeout_ms--, which is the poll the     *)
(* model keeps.  payload_id is 0, the steps having no input tensor.        *)
(***************************************************************************)
\* ipc_send_flags and ring_cmd_doorbell, the whole call
ipc_send_flags(ring, bell, cmd, payload, flags, now) ==
  LET next_head == RingNext(ring.head, ring.size)
      pkt  == [cmd |-> cmd, flags |-> flags, payload_id |-> payload,
               timestamp |-> now]
      bell1 == [bell EXCEPT !.cmd_doorbell = next_head,
                            !.cmd_writes = bell.cmd_writes + 1]
  IN  IF RingFull(next_head, ring.tail)
      THEN [ret |-> -1, ring |-> ring, bell |-> bell, pkt |-> pkt]
      ELSE [ret  |-> 0,
            ring |-> [ring EXCEPT !.data[ring.head] = pkt,
                                  !.head = next_head],
            bell |-> IF FlagSet(bell.cmd_flags, DOORBELL_FLAG_IRQ_ENABLED)
                     THEN [bell1 EXCEPT
                             !.cmd_flags = FlagOr(bell.cmd_flags,
                                                  DOORBELL_FLAG_PENDING),
                             !.cmd_irq_count = bell.cmd_irq_count + 1]
                     ELSE bell1,
            pkt  |-> pkt]

\* ipc_poll_response, the whole call
ipc_poll_response(ring) ==
  IF ring.magic # IPC_RSP_MAGIC \/ RingEmpty(ring.head, ring.tail)
  THEN [ret |-> 0, ring |-> ring, rsp |-> ZeroResponse]
  ELSE [ret  |-> 1,
        ring |-> [ring EXCEPT !.tail = RingNext(ring.tail, ring.size)],
        rsp  |-> ring.data[ring.tail]]

\* while (ipc_poll_response(&rsp)) { }: the ring after the loop and the
\* responses the calls returned
RECURSIVE DrainResponses(_, _)
DrainResponses(ring, got) ==
  IF ipc_poll_response(ring).ret = 0 THEN [ring |-> ring, got |-> got]
  ELSE DrainResponses(ipc_poll_response(ring).ring,
                      Append(got, ipc_poll_response(ring).rsp))

\* ipc_irq_handler.  It runs on the kernel's CPU between any two
\* instructions of the interrupted code and returns before that code goes
\* on; the interrupt is the one the device raises for a rung response
\* doorbell.
IrqHandler ==
  /\ core.irq_count < MaxIrqs
  /\ FlagSet(doorbell.rsp_flags, DOORBELL_FLAG_PENDING)
  /\ core' = [core EXCEPT !.irq_count = @ + 1]
  /\ doorbell' = [doorbell EXCEPT
                    !.rsp_flags = FlagClear(@, DOORBELL_FLAG_PENDING)]
  /\ rsp_ring' = DrainResponses(rsp_ring, <<>>).ring
  /\ polled' = polled \o DrainResponses(rsp_ring, <<>>).got
  /\ IrqOnly

\* the time between the two span calls: within the step budget or over it
ExecDurations == {400, 2000}

\* sched_run_job from job_graph_next_ready through flightrec_begin_span
\* into execute_step, up to the poll loop
ExecStepStart ==
  /\ sched.pc = "loop"
  /\ job_graph_next_ready(job_graph) >= 0
  /\ find_step(job_graph, job_graph_next_ready(job_graph)) # 0
  /\ LET sid  == job_graph_next_ready(job_graph)
         step == job_graph.steps[find_step(job_graph, sid)]
         r    == ipc_send_flags(cmd_ring, doorbell, CMD_RUN_MODEL, 0, 0,
                                core_now)
         ex   == [NoExec EXCEPT
                    !.sid = sid,
                    !.span = flightrec_begin_span_handle(flightrec)]
     IN  /\ flightrec' = flightrec_begin_span(flightrec, TRACE_EVT_STEP_START,
                                              job_graph.id, sid)
         /\ IF step.type # STEP_TYPE_COMPUTE
            THEN /\ sched' = [sched EXCEPT !.pc = "x_end",
                                !.exec = [ex EXCEPT !.outcome = "simulated"]]
                 /\ UNCHANGED <<cmd_ring, doorbell, core_now, sent>>
            ELSE /\ Len(sent) < MaxSends
                 /\ cmd_ring' = r.ring
                 /\ doorbell' = r.bell
                 /\ core_now' = IF r.ret = 0 THEN core_now + 1 ELSE core_now
                 /\ sent' = IF r.ret = 0 THEN Append(sent, r.pkt) ELSE sent
                 /\ sched' =
                      IF r.ret # 0
                      THEN [sched EXCEPT !.pc = "x_end",
                              !.exec = [ex EXCEPT !.outcome = "send_failed"]]
                      ELSE [sched EXCEPT !.pc = "x_poll",
                              !.exec = [ex EXCEPT !.timeout_ms = MaxPollMs,
                                                  !.cmd_no = Len(sent) + 1]]
  /\ UNCHANGED <<job_graph, job_deps, rsp_ring, polled>>
  /\ ExecOnly

\* one turn of the poll loop: ipc_poll_response, and without a response
\* pit_sleep_ms(1); timeout_ms--
ExecPoll ==
  /\ sched.pc = "x_poll"
  /\ LET r == ipc_poll_response(rsp_ring)
     IN  /\ rsp_ring' = r.ring
         /\ polled' = IF r.ret = 1 THEN Append(polled, r.rsp) ELSE polled
         /\ sched' =
              IF r.ret = 1
              THEN [sched EXCEPT !.pc = "x_end",
                                 !.exec.outcome = "received"]
              ELSE IF sched.exec.timeout_ms = 1
              THEN [sched EXCEPT !.pc = "x_end", !.exec.timeout_ms = 0,
                                 !.exec.outcome = "timeout"]
              ELSE [sched EXCEPT !.exec.timeout_ms = @ - 1]
  /\ UNCHANGED <<job_graph, job_deps, flightrec, cmd_ring, doorbell, core_now,
                 sent>>
  /\ ExecOnly

\* execute_step has returned: flightrec_end_span, the budget check and
\* job_graph_mark_completed
ExecStepEnd ==
  /\ sched.pc = "x_end"
  /\ \E duration \in ExecDurations :
       LET sid == sched.exec.sid
           f2  == flightrec_end_span(flightrec, sched.exec.span,
                                     TRACE_EVT_STEP_END, duration)
           step_duration == flightrec_last_duration(f2, job_graph.id, sid)
           per_step_budget == con.cpu_budget_us \div Len(job_graph.steps)
           check == BudgetCheck(job_graph.id, sid, step_duration,
                                per_step_budget)
       IN  /\ flightrec' = LogAll(f2, check)
           /\ job_graph' = job_graph_mark_completed(job_graph, sid)
           /\ sched' = [sched EXCEPT
                          !.pc = "loop",
                          !.last = [sid |-> sid,
                                    idx |-> find_step(job_graph, sid),
                                    picked |-> SetMin(ReadySet(job_graph)),
                                    duration |-> duration,
                                    budget |-> per_step_budget,
                                    log |-> check,
                                    ready |-> ReadySet(job_graph)],
                          !.exec = [NoExec EXCEPT
                                      !.outcome = sched.exec.outcome,
                                      !.cmd_no = sched.exec.cmd_no]]
  /\ UNCHANGED <<job_deps, cmd_ring, rsp_ring, doorbell, core_now, sent,
                 polled>>
  /\ ExecOnly

\* the run of a job whose peer stays silent
NextExecSilent ==
  \/ JobGraphAddStep \/ JobGraphAddDep
  \/ SchedRunJobBegin \/ ExecStepStart \/ ExecPoll \/ ExecStepEnd
  \/ SchedRunJobEnd

\* the run of a job with the peer at work and the response interrupt on
NextExecIrq ==
  \/ JobGraphAddStep
  \/ SchedRunJobBegin \/ ExecStepStart \/ ExecPoll \/ ExecStepEnd
  \/ SchedRunJobEnd
  \/ PeerNext \/ IrqHandler

\* the kernel's ring calls with the response interrupt on
NextIPCIrq == NextIPC \/ IrqHandler

\* ipc_send(CMD_PING, 0), the whole call
CoreSendPing ==
  /\ core.pc = "idle"
  /\ Len(sent) < MaxSends
  /\ \E r \in {ipc_send_flags(cmd_ring, doorbell, CMD_PING, 0, 0, core_now)} :
       /\ cmd_ring' = r.ring
       /\ doorbell' = r.bell
       /\ sent' = IF r.ret = 0 THEN Append(sent, r.pkt) ELSE sent
       /\ core' = [core EXCEPT !.ret = r.ret]
       /\ core_now' = IF r.ret = 0 THEN core_now + 1 ELSE core_now
  /\ UNCHANGED <<rsp_ring, polled>>
  /\ CoreStep

\* the three writers of rsp_flags at work
NextIPCFlags ==
  \/ CoreSendPing \/ PeerNext
  \/ CoreEnableIrqLoad \/ CoreEnableIrqStore \/ IrqHandler

InitAll ==
  InitIFR /\ InitIPC /\ InitContract /\ InitFlightrec /\ InitJob /\ InitHeap

SpecIFR == InitAll /\ [][NextIFR]_vars

SpecIPC == InitAll /\ [][NextIPC]_vars

SpecIPCCmdIrq == InitAll /\ [][NextIPCCmdIrq]_vars

InitAllBoot ==
  InitIFR /\ InitIPCBoot /\ InitContract /\ InitFlightrec /\ InitJob
    /\ InitHeap

SpecIPCBoot == InitAllBoot /\ [][NextIPCBoot]_vars

SpecIPCFlags == InitAll /\ [][NextIPCFlags]_vars

SpecIPCMagic == InitAll /\ [][NextIPCMagic]_vars

SpecIPCIrq == InitAll /\ [][NextIPCIrq]_vars

SpecExecIrq == InitAll /\ [][NextExecIrq]_vars

\* execute_step and sched_run_job run on the boot CPU without being
\* descheduled: a loop turn that can be taken is taken
SpecExecSilent ==
  InitAll /\ [][NextExecSilent]_vars
          /\ WF_vars(ExecStepStart) /\ WF_vars(ExecPoll)
          /\ WF_vars(ExecStepEnd) /\ WF_vars(SchedRunJobEnd)

SpecContract == InitAll /\ [][NextContract]_vars

SpecContractSet == InitAll /\ [][NextContractSet]_vars

SpecSched == InitAll /\ [][NextSched]_vars

SpecContractState == InitAll /\ [][NextContractState]_vars

SpecContractPages == InitAll /\ [][NextContractPages]_vars

SpecAdmit == InitAll /\ [][NextAdmit]_vars

SpecHeap == InitAll /\ [][NextHeap]_vars

SpecHeapGet == InitAll /\ [][NextHeapGet]_vars

InitAllLate ==
  InitIFR /\ InitIPC /\ InitContract /\ InitFlightrec /\ InitJob
    /\ InitHeapLate

SpecHeapLate == InitAllLate /\ [][NextHeap]_vars

\* the heap after heap_init, one heap_alloc(1, BLOB_TYPE_RAW), which returned
\* id 1 and is still live, and 65533 more heap_alloc calls, each followed
\* by the heap_free of the id it returned
InitHeapWrapped ==
  /\ heap = [HeapInitial EXCEPT
               !.next_blob_id = BlobIdValues - 1,
               !.bitmap[0] = 1,
               !.free_blocks = @ - 1,
               !.hdr[0] = RawHeader(1),
               !.hdr[1] = RawHeader(BlobIdValues - 2),
               !.blob_table = <<[blob_id |-> 1, offset |-> 0, blocks |-> 1]>>]
  /\ heap_live = {[id |-> 1, start |-> 0, blocks |-> 1]}
  /\ heap_last = [op |-> "heap_free", arg |-> BlobIdValues - 2, ret |-> 0,
                  bitmap |-> [HeapInitial.bitmap EXCEPT ![0] = 1, ![1] = 1],
                  free_blocks |-> HeapInitial.free_blocks - 2]
  /\ heap_calls = 0

InitAllWrapped ==
  InitIFR /\ InitIPC /\ InitContract /\ InitFlightrec /\ InitJob
    /\ InitHeapWrapped

SpecHeapWrapped == InitAllWrapped /\ [][NextHeap]_vars

\* the recorder two events before head wraps: 2^32 - 2 events were logged
\* since flightrec_init, the last four by a run of an earlier job
EarlierJobId == 2
EarlierRun ==
  <<Evt(TRACE_EVT_JOB_SUBMIT, EarlierJobId, 0, 1),
    Evt(TRACE_EVT_STEP_START, EarlierJobId, 1, 0),
    Evt(TRACE_EVT_STEP_END, EarlierJobId, 1, 400),
    Evt(TRACE_EVT_JOB_COMPLETE, EarlierJobId, 0, 0)>>

\* the events in logging order, oldest first, ending in the run
LateHistory ==
  [i \in 1..TraceBufSize |->
     IF i + Len(EarlierRun) > TraceBufSize
     THEN EarlierRun[i + Len(EarlierRun) - TraceBufSize]
     ELSE Evt(TRACE_EVT_SCHED_TICK, 0, 0, 0)]

InitFlightrecLate ==
  flightrec =
    [buf   |-> [i \in 0..(TraceBufSize - 1) |->
                  LateHistory[((i + 2) % TraceBufSize) + 1]],
     head  |-> 2 * TraceBufSize - 2,
     to_wrap |-> 2,
     hist  |-> LateHistory,
     spans |-> [i \in 0..(MAX_ACTIVE_SPANS - 1) |-> ZeroSpan]]

InitAllTraceLate ==
  InitIFR /\ InitIPC /\ InitContract /\ InitFlightrecLate /\ InitJob
    /\ InitHeap

SpecTraceLate == InitAllTraceLate /\ [][NextSched]_vars

\* sched_run_job runs to completion on the boot CPU: a loop iteration that
\* can be taken is taken
SpecSchedFair ==
  InitAll /\ [][NextSched]_vars
          /\ WF_vars(SchedStep) /\ WF_vars(SchedRunJobEnd)

(***************************************************************************)
(* Episode-record properties                                               *)
(***************************************************************************)

\* C1: the record ifr_build_v3 leaves in *out is accepted by ifr_verify_v3,
\* for every prev_chain_hash (NULL included) and with or without a model
\* blob.
C1_BuildThenVerify == ifr_fresh => IfrVerifyV3(rec) = 1

\* C2: changing any one field of the hashed region of an accepted record
\* gives a record ifr_verify_v3 rejects, and a record whose magic, version
\* or record_size is not exactly IFR0 / 3 / 324 is rejected whatever its
\* hashes are.
C2_TamperEvident ==
  /\ IfrVerifyV3(rec) = 1 =>
       \A i \in 1..Len(HashedFields) :
         \A v \in FieldDomain(rec, HashedFields[i]) \ {rec[HashedFields[i]]} :
           IfrVerifyV3([rec EXCEPT ![HashedFields[i]] = v]) = 0
  /\ ( rec.magic # IFR_MAGIC \/ rec.version # IFR_VERSION_V3
         \/ rec.record_size # IFR_V3_RECORD_SIZE ) => IfrVerifyV3(rec) = 0

\* an accepted record was verified (and has fields that can be changed)
C2_Witness == ifr_ok = 1 /\ IfrVerifyV3(rec) = 1 /\ rec.magic = IFR_MAGIC

(***************************************************************************)
(* Ring properties                                                         *)
(***************************************************************************)
\* commands published and not yet released by the peer; responses likewise
Unconsumed == Len(sent) - Len(consumed)
Unpolled   == Len(published) - Len(polled)

IsPrefix(a, b) == Len(a) <= Len(b) /\ \A i \in 1..Len(a) : a[i] = b[i]

SendWritePcs == {"s_cmd", "s_flags", "s_payload", "s_ts"}
RspWritePcs  == {"r_status", "r_cmd", "r_result", "r_ts"}
PeerCopiedPcs == {"r_full", "r_status", "r_cmd", "r_result", "r_ts",
                  "r_publish", "r_bell", "r_test", "r_load", "r_store",
                  "c_tail"}

\* C3: a consumer never copies a partly written slot.  All four fields of
\* data[head] are stored before the new head is; every published and
\* unreleased slot holds exactly what its producer wrote; what a consumer
\* copied from data[tail] is the packet published for that position; and a
\* producer writes no slot the consumer has not yet released.
C3_NoTornCopy ==
  /\ core.pc = "s_publish" => cmd_ring.data[core.head] = core.pkt
  /\ peer.pc = "r_publish" => rsp_ring.data[peer.head] = peer.rsp
  /\ \A i \in 0..(Unconsumed - 1) :
       cmd_ring.data[(cmd_ring.tail + i) % RingSize] = sent[Len(consumed) + 1 + i]
  /\ \A i \in 0..(Unpolled - 1) :
       rsp_ring.data[(rsp_ring.tail + i) % RingSize]
         = published[Len(polled) + 1 + i]
  /\ peer.pc \in PeerCopiedPcs =>
       Unconsumed > 0 /\ peer.local_pkt = sent[Len(consumed) + 1]
  /\ core.pc = "p_tail" =>
       Unpolled > 0 /\ core.rsp = published[Len(polled) + 1]
  /\ core.pc \in SendWritePcs =>
       \A i \in 0..(Unconsumed - 1) :
         (cmd_ring.tail + i) % RingSize # core.head
  /\ peer.pc \in RspWritePcs =>
       \A i \in 0..(Unpolled - 1) :
         (rsp_ring.tail + i) % RingSize # peer.head

\* the peer copies a slot while the core writes another, in a ring whose
\* slots have been reused
C3_Witness ==
  /\ peer.pc = "c_payload" /\ core.pc = "s_payload"
  /\ Len(sent) >= RingSize /\ peer.tail # core.head

\* C4: ipc_send returns -1 exactly when RingSize - 1 commands are
\* unconsumed at its full check, and otherwise goes on to publish; so
\* RingSize - 1 sends into an empty ring succeed, the next fails, and one
\* consume makes room for exactly one more.
C4_FullExactlyAtCapacity ==
  [][ (core.pc = "s_full" /\ core'.pc # "s_full") =>
        /\ (core'.pc = "idle" /\ core'.ret = -1) <=> (Unconsumed = RingSize - 1)
        /\ (core'.pc = "s_cmd") <=> (Unconsumed < RingSize - 1) ]_vars

\* RingSize - 1 sends, a failed send, one consume, one more send, and the
\* send after it has failed
C4_Witness ==
  /\ core.pc = "idle" /\ core.ret = -1
  /\ Len(sent) = RingSize /\ Len(consumed) = 1

\* C5: a send on a full ring returns -1 and leaves head, tail, every slot
\* and every doorbell field unchanged.
C5_FullSendChangesNothing ==
  [][ /\ (core.pc = "idle" /\ core'.pc = "s_full") =>
           (cmd_ring' = cmd_ring /\ doorbell' = doorbell)
      /\ ( core.pc = "s_full" /\ core' # core
           /\ (core.head + 1) % cmd_ring.size = cmd_ring.tail ) =>
           /\ core'.pc = "idle" /\ core'.ret = -1
           /\ cmd_ring' = cmd_ring
           /\ doorbell' = doorbell ]_vars

\* a send has just failed on a full ring whose doorbell was rung once per
\* earlier send
C5_Witness ==
  /\ core.pc = "idle" /\ core.ret = -1
  /\ Unconsumed = RingSize - 1
  /\ doorbell.cmd_writes = Len(sent)
  /\ doorbell.cmd_doorbell = cmd_ring.head

\* C6: head and tail stay in [0, size), the number of unconsumed commands
\* is (head - tail) mod size, and the ring is empty whenever as many
\* commands were consumed as were sent.
C6_RingIndices ==
  /\ cmd_ring.head \in Slots /\ cmd_ring.tail \in Slots
  /\ cmd_ring.size = RingSize
  /\ Unconsumed = (cmd_ring.head - cmd_ring.tail + RingSize) % RingSize
  /\ (Len(consumed) = Len(sent)) => cmd_ring.head = cmd_ring.tail

\* every send of the behaviour was consumed, the indices having wrapped
C6_Witness ==
  /\ Len(sent) = MaxSends /\ Len(consumed) = MaxSends
  /\ cmd_ring.head = cmd_ring.tail /\ cmd_ring.head = MaxSends % RingSize

ConStep(ops) == con_calls' = con_calls + 1 /\ con_last'.op \in ops

Logged(call, evt) == \E i \in 1..Len(call.log) : call.log[i].type = evt

ChargeOps == {"contract_charge_cpu", "contract_charge_memory",
              "contract_alloc_page", "contract_free_page"}

\* C8: once the state is SAFE_MODE, charge, alloc and free calls keep it
\* there, and every contract_alloc_page returns 0, asks the page allocator
\* for no frame and changes none of mem_used_kb, mem_violations,
\* cpu_violations and state.
C8_SafeModeBlocksAlloc ==
  [][ con.state = CONTRACT_STATE_SAFE_MODE =>
        /\ ConStep(ChargeOps) => con'.state = CONTRACT_STATE_SAFE_MODE
        /\ ConStep({"contract_alloc_page"}) =>
             /\ con_last'.ret = 0
             /\ ~con_last'.pmm
             /\ pmm_used' = pmm_used
             /\ con'.mem_used_kb = con.mem_used_kb
             /\ con'.mem_violations = con.mem_violations
             /\ con'.cpu_violations = con.cpu_violations
             /\ con'.state = con.state ]_vars

\* a SAFE_MODE contract with budget and free frames left was refused a page
C8_Witness ==
  /\ con.state = CONTRACT_STATE_SAFE_MODE
  /\ con_last.op = "contract_alloc_page"
  /\ con_last.log = <<Evt(TRACE_EVT_MEM_ALLOC_FAIL, con.job_id, 0, 0)>>
  /\ con.mem_used_kb + page_kb <= con.memory_kb
  /\ pmm_used # PmmFrames
  /\ con_held # {}

\* C9: the first call that detects an overrun moves OK to WARNED, and the
\* contract enters SAFE_MODE exactly at the call that raises cpu_violations
\* to 3 or mem_violations to 2: the state is OK iff no violation was
\* counted, and SAFE_MODE iff one of the two limits was reached.  With a
\* budget of 1000 us and charges of 2000 us the state is WARNED after the
\* first and second charge and SAFE_MODE after the third.
C9_Escalation ==
  /\ [](/\ con.state = CONTRACT_STATE_OK <=>
             (con.cpu_violations = 0 /\ con.mem_violations = 0)
        /\ con.state = CONTRACT_STATE_SAFE_MODE <=>
             (con.cpu_violations >= 3 \/ con.mem_violations >= 2)
        /\ (con.cpu_budget_us = 1000 /\ con.mem_violations = 0
            /\ con.cpu_violations > 0
            /\ con.cpu_used_us = 2000 * con.cpu_violations) =>
             con.state = IF con.cpu_violations <= 2
                         THEN CONTRACT_STATE_WARNED
                         ELSE CONTRACT_STATE_SAFE_MODE)
  /\ [][ ConStep(ChargeOps) =>
          /\ (con.state = CONTRACT_STATE_OK
              /\ (Logged(con_last', TRACE_EVT_CONTRACT_BUDGET_EXCEED)
                  \/ Logged(con_last', TRACE_EVT_MEM_CONTRACT_EXCEED))) =>
               con'.state = CONTRACT_STATE_WARNED
          /\ (con.state # CONTRACT_STATE_SAFE_MODE
              /\ con'.state = CONTRACT_STATE_SAFE_MODE) <=>
               (\/ con.cpu_violations = 2 /\ con'.cpu_violations = 3
                   /\ con.mem_violations < 2
                \/ con.mem_violations = 1 /\ con'.mem_violations = 2
                   /\ con.cpu_violations < 3) ]_vars

\* three charges of 2000 us against 1000 us: SAFE_MODE at the third
C9_Witness ==
  /\ con.cpu_budget_us = 1000
  /\ con.cpu_used_us = 6000
  /\ con.cpu_violations = 3
  /\ con.mem_violations = 0
  /\ con_last.op = "contract_charge_cpu"
  /\ Logged(con_last, TRACE_EVT_CONTRACT_SAFE_MODE)
  /\ con.state = CONTRACT_STATE_SAFE_MODE

\* C10: no contract_set_state call lowers the severity of the state, and
\* no call other than contract_apply leaves SAFE_MODE.
C10_StateMonotonic ==
  [][ /\ ConStep({"contract_set_state"}) => con'.state >= con.state
      /\ (con.state = CONTRACT_STATE_SAFE_MODE
          /\ ConStep(ChargeOps \cup {"contract_set_state"})) =>
           con'.state = CONTRACT_STATE_SAFE_MODE ]_vars

(***************************************************************************)
(* Executor properties                                                     *)
(***************************************************************************)
\* one loop iteration of sched_run_job
StepTaken ==
  sched.pc = "loop" /\ sched'.pc = "loop" /\ flightrec' # flightrec

EventsOf(log, type) == {i \in 1..Len(log) : log[i].type = type}

\* C11: every executed step adds its measured duration to
\* ctx->contract.cpu_used_us, so a step that takes more than the whole
\* budget leaves the contract out of state OK.
C11_StepsChargeContract ==
  [][ StepTaken =>
        /\ con'.cpu_used_us = con.cpu_used_us + sched'.last.duration
        /\ sched'.last.duration > con.cpu_budget_us =>
             con'.state # CONTRACT_STATE_OK ]_vars

\* C12: a run logs one JOB_SUBMIT before its first step and, for every job
\* graph, goes on to log one JOB_COMPLETE after its last step.
C12_SubmitThenComplete ==
  /\ [](sched.pc = "done" => sched.submits = 1 /\ sched.completes = 1)
  /\ [][StepTaken => sched.submits = 1 /\ sched.completes = 0]_vars
  /\ (sched.pc = "loop") ~> (sched.pc = "done")

\* C13: the step that is run is the ready, uncompleted step with the
\* smallest id.
C13_LowestIdFirst ==
  [][ StepTaken => sched'.last.sid = LowestReadyId(job_graph) ]_vars

\* C14: with per_step_budget = cpu_budget_us / num_steps, a step whose
\* duration equals per_step_budget logs no BUDGET_EXCEED; a longer step logs
\* exactly one BUDGET_EXCEED and no BUDGET_WARN; a step above 80 % of
\* per_step_budget but not above it logs exactly one BUDGET_WARN.
C14_BudgetBoundary ==
  [][ StepTaken =>
        LET d   == sched'.last.duration
            psb == sched'.last.budget
            log == sched'.last.log
        IN  /\ psb = con.cpu_budget_us \div Len(job_graph.steps)
            /\ d = psb =>
                 EventsOf(log, TRACE_EVT_CONTRACT_BUDGET_EXCEED) = {}
            /\ d >= psb + 1 =>
                 /\ Cardinality(EventsOf(log,
                      TRACE_EVT_CONTRACT_BUDGET_EXCEED)) = 1
                 /\ EventsOf(log, TRACE_EVT_CONTRACT_BUDGET_WARN) = {}
            /\ (d * 100 > psb * 80 /\ d <= psb) =>
                 /\ Cardinality(EventsOf(log,
                      TRACE_EVT_CONTRACT_BUDGET_WARN)) = 1
                 /\ EventsOf(log, TRACE_EVT_CONTRACT_BUDGET_EXCEED) = {}
            /\ \A i \in 1..Len(log) :
                 log[i].extra = d /\ log[i].step_id = sched'.last.sid ]_vars

\* a step that ran exactly at its per-step budget of 500 us
C14_Witness ==
  /\ sched.last.sid # 0
  /\ sched.last.budget = 500
  /\ sched.last.duration = sched.last.budget
  /\ Len(sched.last.log) = 1
  /\ sched.last.log[1].type = TRACE_EVT_CONTRACT_BUDGET_WARN

AdmitStep ==
  con_calls' = con_calls + 1 /\ con_last'.op = "contract_admit_job"

\* the result the documentation gives for a contract and a job
AdmitExpected(c, jg) ==
  IF jg.peak_memory_kb > c.memory_kb \/ jg.pinned_memory_kb > c.memory_kb
  THEN ADMIT_REJECT_MEMORY
  ELSE IF jg.peak_memory_kb > c.memory_kb - c.mem_used_kb
  THEN ADMIT_REJECT_NO_RESOURCES
  ELSE ADMIT_OK

Verdicts(log) ==
  EventsOf(log, TRACE_EVT_JOB_ADMIT) \cup EventsOf(log, TRACE_EVT_JOB_REJECT)

\* C15: contract_admit_job returns REJECT_MEMORY when peak or pinned memory
\* exceeds memory_kb, else REJECT_NO_RESOURCES when peak exceeds
\* memory_kb - mem_used_kb, else ADMIT_OK; a CPU estimate above the budget
\* only adds a BUDGET_WARN event; every call logs exactly one JOB_ADMIT or
\* JOB_REJECT event with the job id and, for a reject, the reject code.
C15_AdmitResult ==
  [][ AdmitStep =>
        LET ret == con_last'.ret
            log == con_last'.log
        IN  /\ ret = AdmitExpected(con, job_graph)
            /\ Cardinality(Verdicts(log)) = 1
            /\ \A i \in Verdicts(log) :
                 /\ log[i].job_id = job_graph.id
                 /\ log[i].type = TRACE_EVT_JOB_ADMIT <=> ret = ADMIT_OK
                 /\ log[i].type = TRACE_EVT_JOB_REJECT =>
                      log[i].step_id = ret
            /\ EventsOf(log, TRACE_EVT_CONTRACT_BUDGET_WARN) # {} <=>
                 (ret = ADMIT_OK
                    /\ EstimateCpu(job_graph.steps) > con.cpu_budget_us)
            /\ Len(log) <= 2 ]_vars

\* C16: contract_admit_job changes neither the contract nor the job graph
\* nor any page accounting, and a call repeated on unchanged arguments
\* returns the result of the call before it.
C16_AdmitPure ==
  [][ AdmitStep =>
        /\ con' = con
        /\ job_graph' = job_graph
        /\ pmm_used' = pmm_used /\ con_held' = con_held
        /\ flightrec'.spans = flightrec.spans
        /\ con_last.op = "contract_admit_job" =>
             con_last'.ret = con_last.ret ]_vars

\* an admitted job, on a contract that has been charged, right after an
\* earlier admission call whose verdict is still in the ring
C16_Witness ==
  /\ con_last.op = "contract_admit_job"
  /\ con_last.ret = ADMIT_OK
  /\ job_graph.peak_memory_kb > 0
  /\ con.mem_used_kb > 0
  /\ Cardinality({i \in 0..(TraceBufSize - 1) :
                    flightrec.buf[i].type = TRACE_EVT_JOB_ADMIT}) >= 2

\* C17: a contract in SAFE_MODE admits no job.
C17_SafeModeDeniesAdmission ==
  [][ (AdmitStep /\ con.state = CONTRACT_STATE_SAFE_MODE) =>
        con_last'.ret # ADMIT_OK ]_vars

HeapStep == heap_calls' = heap_calls + 1

AllocOps == {"heap_alloc", "heap_alloc_tensor"}

\* C18: when an allocation succeeds, freeing the id it returned in the very
\* next call puts free_blocks and every bitmap bit back to what they were
\* before the allocation, however many blobs are live.
C18_AllocFreeRestores ==
  [][ (/\ HeapStep
       /\ heap_last.op \in AllocOps /\ heap_last.ret # 0
       /\ heap_last'.op = "heap_free" /\ heap_last'.arg = heap_last.ret) =>
        /\ heap'.bitmap = heap_last.bitmap
        /\ heap'.free_blocks = heap_last.free_blocks ]_vars

\* C19: a bitmap bit is set exactly when its block belongs to a blob that
\* was allocated and not yet freed, such blobs occupy pairwise disjoint
\* block ranges inside the data area, and free_blocks counts the clear
\* bits.
C19_BitmapMatchesLive ==
  /\ \A b \in 0..(HeapMaxBlocks - 1) :
       heap.bitmap[b] = 1 <=>
         \E l \in heap_live : b \in BlocksFrom(l.start, l.blocks)
  /\ \A l \in heap_live :
       BlocksFrom(l.start, l.blocks) \subseteq 0..(HeapMaxBlocks - 1)
  /\ \A l1 \in heap_live : \A l2 \in heap_live :
       l1 # l2 =>
         BlocksFrom(l1.start, l1.blocks) \cap
           BlocksFrom(l2.start, l2.blocks) = {}
  /\ heap.free_blocks =
       Cardinality({b \in 0..(HeapMaxBlocks - 1) : heap.bitmap[b] = 0})

\* C20: an allocation that takes blocks returns an id in 1..65535, the one
\* after the allocation that returned 65535 returns 1, and 0 is returned
\* only when no block was taken.
C20_BlobIds ==
  [][ (HeapStep /\ heap_last'.op \in AllocOps) =>
        /\ heap_last'.ret = 0 => heap'.bitmap = heap.bitmap
        /\ heap'.bitmap # heap.bitmap =>
             heap_last'.ret \in 1..(BlobIdValues - 1)
        /\ (/\ heap_last.op \in AllocOps
            /\ heap_last.ret = BlobIdValues - 1
            /\ heap'.bitmap # heap.bitmap) => heap_last'.ret = 1 ]_vars

\* ceil((n + 32) / 64) for a 32-bit size n, without wrap
BlocksNeeded(size) ==
  size[1] * (Limb \div HEAP_BLOCK_SIZE)
    + (size[2] + SizeofHeapBlob + HEAP_BLOCK_SIZE - 1) \div HEAP_BLOCK_SIZE

HasFreeRun(bitmap, count) ==
  \E s \in 0..(HeapMaxBlocks - 1) :
    /\ s + count <= HeapMaxBlocks
    /\ \A k \in 0..(count - 1) : bitmap[s + k] = 0

HeapUntouched ==
  /\ heap'.bitmap = heap.bitmap
  /\ heap'.free_blocks = heap.free_blocks
  /\ heap'.next_blob_id = heap.next_blob_id

\* C21: on a fresh heap a request of the data size less the 32-byte header
\* succeeds and takes every block, and one byte more fails and changes
\* nothing; for every 32-bit size n, heap_alloc(n, t) takes blocks only if
\* a run of ceil((n + 32) / 64) free blocks exists and otherwise leaves
\* bitmap, free_blocks and next_blob_id alone.
C21_AllocNeedsRun ==
  [][ (HeapStep /\ heap_last'.op = "heap_alloc") =>
        LET size == heap_last'.arg
        IN  /\ HasFreeRun(heap.bitmap, BlocksNeeded(size))
               \/ (heap_last'.ret = 0 /\ HeapUntouched)
            /\ (heap = HeapInitial
                  /\ size = U32(HeapDataSize - SizeofHeapBlob)) =>
                 (heap_last'.ret # 0 /\ heap'.free_blocks = 0)
            /\ (heap = HeapInitial
                  /\ size = U32(HeapDataSize - SizeofHeapBlob + 1)) =>
                 (heap_last'.ret = 0 /\ HeapUntouched) ]_vars

(***************************************************************************)
(* Chained episode records                                                 *)
(***************************************************************************)
\* the records ifr_build_v3 can leave when called with prev = a.chain_hash
SuccessorsOf(a) ==
  { IfrBuildV3(a.chain_hash, job, ep, model, g, ts, ts, nc, data, seal) :
      job \in JobIds, ep \in {a.episode_id + 1}, model \in ModelIds,
      g \in Goodputs, ts \in Times, nc \in Cycles, data \in ModelBlobs,
      seal \in SealHashes }

\* C27: a record A built with prev_chain_hash all zero and a record B built
\* with prev_chain_hash = A.chain_hash are linked (B.prev_chain_hash equals
\* A.chain_hash) and both pass ifr_verify_v3; after any change of A.nonce,
\* A fails ifr_verify_v3 and the unchanged B still passes.
C27_ChainedPair ==
  (ifr_fresh /\ rec.prev_chain_hash = ZeroDigest) =>
    \A b \in SuccessorsOf(rec) :
      /\ b.prev_chain_hash = rec.chain_hash
      /\ IfrVerifyV3(rec) = 1
      /\ IfrVerifyV3(b) = 1
      /\ \A v \in FieldDomain(rec, "nonce") \ {rec.nonce} :
           /\ IfrVerifyV3([rec EXCEPT !.nonce = v]) = 0
           /\ IfrVerifyV3(b) = 1

(***************************************************************************)
(* Job statistics                                                          *)
(***************************************************************************)
\* the events flightrec_get_job_stats counts for a job
Counted(e, job_id) ==
  /\ e.job_id = job_id
  /\ e.type \in {TRACE_EVT_STEP_END, TRACE_EVT_CONTRACT_VIOLATION,
                 TRACE_EVT_CONTRACT_BUDGET_EXCEED}

\* a step of the executor's loop (the other steps of sched_run_job log one
\* event each), and the number of events the step logs
IsSchedStep == sched.pc = "loop" /\ sched'.pc = "loop"
StepLogged == IF IsSchedStep THEN 2 + Len(sched'.last.log) ELSE 1

\* the events the step pushes out of the ring (the oldest ones)
Overwritten ==
  LET lost == Len(flightrec.hist) + StepLogged - TraceBufSize
  IN  IF lost <= 0 THEN <<>> ELSE SubSeq(flightrec.hist, 1, lost)

NoCountedLost ==
  \A i \in 1..Len(Overwritten) : ~Counted(Overwritten[i], job_graph.id)

NumExceed(log) ==
  Cardinality({i \in 1..Len(log) :
                 log[i].type = TRACE_EVT_CONTRACT_BUDGET_EXCEED})

Reverse(es) == [i \in 1..Len(es) |-> es[Len(es) + 1 - i]]

\* C25: after n flightrec_log calls since flightrec_init the ring holds the
\* min(n, TRACE_BUF_SIZE) most recent events in logging order (hist, which
\* every log extends by one event and cuts at the oldest when full);
\* flightrec_get_job_stats visits exactly those events, oldest first, and
\* flightrec_last_duration visits exactly those events, newest first.
C25_RingHoldsRecent ==
  /\ StatsScan(flightrec) = flightrec.hist
  /\ DurationScan(flightrec) = Reverse(flightrec.hist)

(***************************************************************************)
(* Dependency order of a run                                               *)
(***************************************************************************)
DistinctIds(j) ==
  \A a, b \in 1..Len(j.steps) : j.steps[a].id = j.steps[b].id => a = b

\* the last n events logged
LastLogged(f, n) == SubSeq(f.hist, Len(f.hist) - n + 1, Len(f.hist))

C26_MagicValidated ==
  /\ [](rsp_ring.magic # IPC_RSP_MAGIC => ipc_has_response(rsp_ring) = 0)
  /\ [][ core.pc = "idle" =>
           /\ core'.pc = "s_full" => cmd_ring.magic = IPC_MAGIC
           /\ core'.pc = "p_status" => rsp_ring.magic = IPC_RSP_MAGIC
           /\ rsp_ring.magic # IPC_RSP_MAGIC =>
                /\ rsp_ring'.tail = rsp_ring.tail /\ polled' = polled
                /\ (core' # core /\ core'.pc = "idle") => core'.ret = 0 ]_vars

(***************************************************************************)
(* Responses under the response interrupt                                  *)
(***************************************************************************)
\* C28: with ipc_irq_handler running between any two memory accesses of an
\* ipc_poll_response call of the interrupted code, the responses returned
\* by ipc_poll_response calls (handler's and main code's together) are the
\* published responses, each once and in order, and every store to
\* rsp_ring.tail moves it forward by exactly the number of responses
\* returned.
C28_OneReturnPerResponse ==
  /\ [](IsPrefix(polled, published))
  /\ [][ rsp_ring'.tail =
           (rsp_ring.tail + Len(polled') - Len(polled)) % RingSize ]_vars

(***************************************************************************)
(* execute_step and its responses                                          *)
(***************************************************************************)
\* how a wait of execute_step ends
ReceiveStep ==
  sched.pc = "x_poll" /\ sched'.pc = "x_end"
    /\ sched'.exec.outcome = "received"
TimeoutStep ==
  sched.pc = "x_poll" /\ sched'.pc = "x_end"
    /\ sched'.exec.outcome = "timeout"

\* The peer answers the commands in order, one response each, unless the
\* response ring is full; with fewer commands than the ring has slots the
\* k-th response published is the answer to the k-th command, and the
\* responses are returned in the order they were published.
AnswersInOrder == Len(sent) < RingSize

\* C22: the response execute_step accepts is the peer's answer to the
\* CMD_RUN_MODEL this same step sent (its cmd_no-th command), never the
\* answer to the command of an earlier step whose wait had timed out.
C22_OwnAnswerOnly ==
  [][ (ReceiveStep /\ AnswersInOrder) =>
        Len(polled') = sched.exec.cmd_no ]_vars

\* C29: the wait of execute_step times out only if the peer has not
\* published the answer to this step's command: once the answer is
\* published the poll loop gets a response, whatever the order in which
\* peer, interrupt handler and poll loop run.
C29_AnsweredNeverTimesOut ==
  [][ (TimeoutStep /\ AnswersInOrder) =>
        Len(published) < sched.exec.cmd_no ]_vars

\* execute_step has returned and sched_run_job finishes the loop turn
EndStep == sched.pc = "x_end" /\ sched'.pc = "loop"

\* C23: with a peer that never answers the poll loop of a compute step
\* ends by timeout; sched_run_job then logs the step's STEP_END, marks the
\* step completed, makes ready the steps whose dependencies are all
\* completed, and goes on until it has logged JOB_COMPLETE.
C23_TimeoutThenComplete ==
  /\ [][ (EndStep /\ sched.exec.outcome = "timeout") =>
           /\ LastLogged(flightrec', 1 + Len(sched'.last.log))[1] =
                Evt(TRACE_EVT_STEP_END, job_graph.id, sched.exec.sid,
                    sched'.last.duration)
           /\ job_graph'.steps[find_step(job_graph,
                                         sched.exec.sid)].completed = 1
           /\ \A i \in 1..Len(job_graph'.steps) :
                ( job_graph'.steps[i].completed = 0
                    /\ AllDepsDone(job_graph', job_graph'.steps[i]) )
                  => job_graph'.steps[i].ready = 1 ]_vars
  /\ (sched.pc = "x_poll") ~>
       ( sched.pc = "done"
           /\ LastLogged(flightrec, 1)[1] =
                Evt(TRACE_EVT_JOB_COMPLETE, job_graph.id, 0, 0) )

(***************************************************************************)
(* Termination of sched_run_job.                                           *)
(***************************************************************************)
NumCompleted(j) ==
  Cardinality({i \in 1..Len(j.steps) : j.steps[i].completed = 1})

\* the ids a step of id a depends on, directly
DepIds(j, a) ==
  UNION { {j.steps[i].deps[d] : d \in 1..Len(j.steps[i].deps)} :
            i \in {k \in 1..Len(j.steps) : j.steps[k].id = a} }

RECURSIVE DepClosure(_, _, _)
DepClosure(j, ids, n) ==
  IF n = 0 THEN ids
  ELSE DepClosure(j, ids \cup UNION {DepIds(j, a) : a \in ids}, n - 1)

\* no step depends, directly or through other steps, on itself
Acyclic(j) ==
  \A a \in StepIds : a \notin DepClosure(j, DepIds(j, a), Len(j.steps))

\* C31: for every job graph that can be built, duplicate step ids,
\* self-dependencies and cycles included, sched_run_job ends, every loop
\* iteration completes one more step (so at most num_steps steps are
\* executed), and when the graph is acyclic every step is completed when
\* sched_run_job returns.
C31_RunTerminates ==
  /\ (sched.pc = "loop") ~> (sched.pc = "done")
  /\ [][ IsSchedStep =>
           NumCompleted(job_graph') = NumCompleted(job_graph) + 1 ]_vars
  /\ [](( sched.pc = "done" /\ Acyclic(job_graph) ) =>
          NumCompleted(job_graph) = Len(job_graph.steps))

\* C36: no two blobs that were allocated and not yet freed carry the same
\* blob id, also after the 16-bit id space has wrapped.
C36_LiveIdsDistinct ==
  \A l1 \in heap_live : \A l2 \in heap_live : l1.id = l2.id => l1 = l2

LookupOps == {"heap_get_blob", "heap_get_data", "heap_get_blob_size"}

\* the call just made was passed an id that belongs to no live blob: one
\* that was freed and not returned by an allocation since
OnFreedId ==
  /\ HeapStep
  /\ heap_last'.op \in LookupOps \cup {"heap_free"}
  /\ heap_last'.arg # 0
  /\ heap_last'.arg \notin {b.id : b \in heap_live}

\* C35: once a live blob is freed its id is unknown until an allocation
\* returns it again: heap_get_blob and heap_get_data return NULL,
\* heap_get_blob_size returns 0, and another heap_free of the id changes
\* neither the bitmap nor free_blocks.
C35_FreedIdUnknown ==
  [][ OnFreedId =>
        /\ heap_last'.op \in {"heap_get_blob", "heap_get_data"} =>
             heap_last'.ret = HeapNull
        /\ heap_last'.op = "heap_get_blob_size" => heap_last'.ret = <<0, 0>>
        /\ heap_last'.op = "heap_free" =>
             /\ heap'.bitmap = heap.bitmap
             /\ heap'.free_blocks = heap.free_blocks ]_vars

AllocPageStep == ConStep({"contract_alloc_page"})

\* C32: a contract_alloc_page on a contract not in SAFE_MODE whose
\* mem_used_kb + 4 exceeds memory_kb returns 0 without asking the page
\* allocator, leaves mem_used_kb as it was, adds exactly 1 to
\* mem_violations and advances the state (OK to WARNED, WARNED to SAFE_MODE
\* at the second memory violation); otherwise the page allocator is asked,
\* a call that obtains a frame adds exactly 4 to mem_used_kb and one that
\* obtains none returns 0 and changes no counter.  So mem_used_kb never
\* exceeds memory_kb while only the page calls are used.
C32_AllocPageBudget ==
  /\ [][ (AllocPageStep /\ con.state # CONTRACT_STATE_SAFE_MODE) =>
           IF con.mem_used_kb + 4 > con.memory_kb
           THEN /\ con_last'.ret = 0
                /\ ~con_last'.pmm
                /\ pmm_used' = pmm_used
                /\ con'.mem_used_kb = con.mem_used_kb
                /\ con'.mem_violations = con.mem_violations + 1
                /\ con'.cpu_violations = con.cpu_violations
                /\ con'.state =
                     IF con.state = CONTRACT_STATE_OK
                     THEN CONTRACT_STATE_WARNED
                     ELSE IF con'.mem_violations >= 2
                          THEN CONTRACT_STATE_SAFE_MODE
                          ELSE CONTRACT_STATE_WARNED
           ELSE /\ con_last'.pmm
                /\ con_last'.ret # 0 =>
                     /\ con'.mem_used_kb = con.mem_used_kb + 4
                     /\ con_last'.ret \in pmm_used' \ pmm_used
                /\ con_last'.ret = 0 =>
                     /\ con' = con
                     /\ pmm_used' = pmm_used
                /\ con'.mem_violations = con.mem_violations
                /\ con'.state = con.state ]_vars
  /\ [](con.mem_used_kb <= con.memory_kb)

\* a page was refused for the budget: both frames of an 8 KB budget are
\* taken and the third call has been counted as a violation
C32_Witness ==
  /\ con_last.op = "contract_alloc_page"
  /\ con_last.ret = 0
  /\ Logged(con_last, TRACE_EVT_MEM_CONTRACT_EXCEED)
  /\ con.memory_kb = 8
  /\ con.mem_used_kb = 8
  /\ con.mem_violations = 1
  /\ con.state = CONTRACT_STATE_WARNED

PageOps == {"contract_alloc_page", "contract_free_page"}

\* C33: mem_used_kb is 4 times the number of frames contract_alloc_page
\* returned for the contract and contract_free_page was not yet given, and
\* every page call keeps it so, whatever address contract_free_page is
\* given.
C33_UsedMatchesHeld ==
  [][ (ConStep(PageOps) /\ con.mem_used_kb = 4 * Cardinality(con_held)) =>
        con'.mem_used_kb = 4 * Cardinality(con_held') ]_vars

StateOps == {"contract_charge_cpu", "contract_charge_memory",
             "contract_alloc_page", "contract_set_state"}

StateEvents(log) ==
  EventsOf(log, TRACE_EVT_CONTRACT_STATE_CHANGE) \cup
    EventsOf(log, TRACE_EVT_CONTRACT_SAFE_MODE)

C34_NoMemoryLeft ==
  [][ ( /\ AdmitStep
        /\ con.mem_used_kb >= con.memory_kb
        /\ job_graph.peak_memory_kb > 0
        /\ job_graph.peak_memory_kb <= con.memory_kb
        /\ job_graph.pinned_memory_kb <= con.memory_kb ) =>
        /\ con_last'.ret = ADMIT_REJECT_NO_RESOURCES
        /\ con_last'.log = <<Evt(TRACE_EVT_JOB_REJECT, job_graph.id,
                                 ADMIT_REJECT_NO_RESOURCES, 0)>> ]_vars

\* ipc_send returns 0
SendReturns == core.pc = "s_pending" /\ core'.pc = "idle"

IpcInitStored(k) == \A j \in 1..k : core.pc # IpcInitOrder[j].pc

ValidMagic(st) ==
  CASE st = "cmd"  -> cmd_ring.magic = IPC_MAGIC
    [] st = "rsp"  -> rsp_ring.magic = IPC_RSP_MAGIC
    [] st = "bell" -> doorbell.magic = IPC_DOORBELL_MAGIC

\* C38: while ipc_init runs beside the peer, a structure whose magic reads
\* valid has had all its other fields stored: the magic is the last field
\* ipc_init writes in the command ring, the response ring and the doorbell
\* block.
C38_MagicWrittenLast ==
  \A k \in 1..Len(IpcInitOrder) :
    ValidMagic(IpcInitOrder[k].st) => IpcInitStored(k)

EnableBit(flags)  == FlagSet(flags, DOORBELL_FLAG_IRQ_ENABLED)
PendingBit(flags) == FlagSet(flags, DOORBELL_FLAG_PENDING)

\* C39: the updates of rsp_flags by ipc_enable_irq and ipc_irq_handler on
\* the kernel side and by ring_rsp_doorbell on the peer's side leave each
\* other's bit alone under every interleaving: the peer's store never
\* changes IRQ_ENABLED, the store of ipc_enable_irq never changes PENDING,
\* and once ipc_enable_irq(0) has returned IRQ_ENABLED stays clear until
\* the next ipc_enable_irq(1).
C39_FlagBitsKept ==
  /\ [][ (peer.pc = "r_store" /\ peer'.pc # "r_store") =>
           EnableBit(doorbell'.rsp_flags) = EnableBit(doorbell.rsp_flags) ]_vars
  /\ [][ (core.pc = "e_store" /\ core'.pc # "e_store") =>
           PendingBit(doorbell'.rsp_flags) = PendingBit(doorbell.rsp_flags) ]_vars
  /\ []( (core.pc # "e_store" /\ core.enable = 0) =>
           ~EnableBit(doorbell.rsp_flags) )

====
